---- MODULE Spec2Model ----
(***************************************************************************)
(* Episode selection, URL mirroring, last-watched persistence and stream   *)
(* loading of EpisodePlayer, and the playback-mode machine of VideoPlayer. *)
(*                                                                         *)
(* React is modelled by its commit cycle: an event handler (or an          *)
(* asynchronous completion) changes state, then Render commits the new     *)
(* state and runs, in declaration order, every effect whose dependencies   *)
(* changed since the previous commit.  Effects read the values of the      *)
(* render they belong to; their state updates take effect at the next      *)
(* Render.  router.replace is asynchronous: the URL changes when the       *)
(* navigation commits.  VideoPlayerInner loads its stream sources itself,   *)
(* through useSWR, and takes its props at mount; useSWR reports isLoading  *)
(* false between a failed request and its retry.                           *)
(***************************************************************************)
EXTENDS Integers, Sequences, FiniteSets, TLC

VARIABLES
  seasons,           \* prop: the title's catalog (ParsedSeason[])
  initialPlayerUrl,  \* prop: the title-level player URL
  url,               \* the query string useSearchParams() shows
  navQueue,          \* router.replace calls not yet committed
  lastWatched,       \* the record stored under the title's key
  pc,                \* "unmounted" | "mounted"
  sel,               \* selectedSeason / selectedEpisode
  seen,              \* dependency values of the last commit (effects ran on)
  isLoadingStream,
  streamState,
  inflight,          \* stream-source fetches not yet settled
  lastSettle,        \* how the stream request settled last went
  vpc,               \* VideoPlayerInner: "unmounted" | "mounted"
  embedSrc,          \* VideoPlayerInner prop
  streamUrl,         \* VideoPlayerInner: the SWR key is set (detailPath given)
  isLoading,         \* VideoPlayerInner prop
  mode,
  directFailed,
  swr,               \* useSWR state: isLoading, data, error, retryCount
  vseen,             \* VideoPlayerInner: dependency values of the last commit
  touched,           \* a user mode action or a playback error happened
  swrSettle,         \* how the SWR request settled last went
  vkey,              \* the React key VideoPlayerInner is mounted under
  sep,               \* SandboxedEmbedPlayer: mounted, isLoading, hasError
  eo,                \* the embed-only VideoPlayer: props, state, timer, iframe
  lwStore,           \* localStorage: the value under each title's last-watched key
  lwSubs,            \* useLastWatched instances: mounted, the snapshot they hold
  lwNotified,        \* the instances whose callback the last step called
  lwCall,            \* the last call of the last-watched API and how it ended
  now,               \* Date.now()
  progressMap,       \* useWatchProgress: the progressMap state (its entries)
  progressType,      \* what kind of value the progressMap state is
  progressStored,    \* localStorage: the value under the progress key
  wpc,               \* useWatchProgress: "unmounted" | "mounted" | "loaded"
  wpLast,            \* the last updateProgress / clearProgress call
  up,                \* player URL texts: the catalog's, the title's, the Selection
  ul,                \* loadStreamSources of that page: position, flag, embed URL
  built,             \* the last buildPlayerUrl call and what it returned
  wps,               \* useWatchProgress instances sharing the store: rendered map, state
  wpsLast,           \* the last call through one of these instances
  dp                 \* DirectVideoPlayer: sources, currentSource, effect dependencies

epVars == <<seasons, initialPlayerUrl, url, navQueue, lastWatched,
            pc, sel, seen, isLoadingStream, streamState, inflight, lastSettle>>
vpVars == <<vpc, embedSrc, streamUrl, isLoading, mode, directFailed, swr, vseen,
            touched, swrSettle, vkey, sep>>
eoVars == <<eo>>
lwVars == <<lwStore, lwSubs, lwNotified, lwCall>>
wpVars == <<progressMap, progressType, progressStored, wpc, wpLast>>
\* What the title page's components leave alone
urlVars == <<up, ul, built>>
sharedVars == <<wps, wpsLast>>
restVars == <<urlVars, sharedVars, dp>>
otherVars == <<eoVars, lwVars, wpVars, now, restVars>>
vars == <<epVars, vpVars, otherVars>>

(***************************************************************************)
(* Bounds                                                                  *)
(***************************************************************************)
\* router.replace calls that may be pending when a new event is taken
MaxNav == 2
\* stream fetches that may be outstanding when a new event is taken
MaxFetch == 2

(***************************************************************************)
(* Values                                                                  *)
(***************************************************************************)
Absent == "<absent>"      \* searchParams.get(...) === null
NaN == -1                 \* Number(...) of a non-numeric string
NoUrl == [base |-> "", season |-> NaN, episode |-> NaN]
NoRecord == [season |-> NaN, episode |-> NaN]
NoSeen == [sel |-> NoRecord, url |-> [season |-> Absent, episode |-> Absent, ref |-> Absent],
           qp |-> NoRecord, first |-> TRUE]

\* No stream request has settled yet
NoSettle == [settled |-> FALSE, noDirect |-> FALSE, status |-> 0, req |-> NoRecord]
\* useSWR before any response: data is undefined
NoData == [loaded |-> FALSE, downloads |-> << >>, captions |-> << >>]
SwrIdle == [isLoading |-> FALSE, data |-> NoData, error |-> FALSE, retryCount |-> 0]
\* No VideoPlayerInner is mounted
NoKey == << >>
\* SandboxedEmbedPlayer is not rendered; its state right after it mounts
NoSep == [mounted |-> FALSE, isLoading |-> FALSE, hasError |-> FALSE, iframe |-> "none"]
FreshSep(f) == [mounted |-> TRUE, isLoading |-> TRUE, hasError |-> FALSE, iframe |-> f]
\* What the iframe's document does: it loads, fails, or hangs
IframeFates == {"loads", "fails", "hangs"}
NoVSeen == [streamLoading |-> FALSE, hasDirectSources |-> FALSE, hasEmbed |-> FALSE,
            directFailed |-> FALSE, first |-> TRUE]

Pair(s, e) == [season |-> s, episode |-> e]
Ep(n, u) == [episodeNumber |-> n, playerUrl |-> u]
Season(n, eps) == [seasonNumber |-> n, episodes |-> eps]
PlayerUrl(b, s, e) == [base |-> b, season |-> s, episode |-> e]

\* Values the season / episode query parameters take
ParamValues == {Absent, "0", "1", "01", "2", "x"}
\* Values of an unrelated query parameter
RefValues == {Absent, "home"}

\* Titles the page may be opened on (seasons is never empty: the page
\* renders EpisodePlayer only when detail.seasons.length > 0)
Titles ==
  { [seasons |-> << Season(1, << Ep(1, NoUrl), Ep(2, NoUrl) >>), Season(2, << >>) >>,
     initialPlayerUrl |-> PlayerUrl("title", NaN, NaN)],
    [seasons |-> << Season(0, << Ep(1, NoUrl) >>), Season(1, << Ep(1, NoUrl), Ep(2, NoUrl) >>) >>,
     initialPlayerUrl |-> NoUrl],
    [seasons |-> << Season(2, << Ep(2, PlayerUrl("own", 2, 2)) >>), Season(1, << Ep(1, NoUrl) >>) >>,
     initialPlayerUrl |-> NoUrl] }

\* Records the store may hold when the page opens
StoredRecords == {NoRecord, Pair(1, 1), Pair(1, 2), Pair(2, 1), Pair(0, 1)}

(***************************************************************************)
(* Conversions                                                             *)
(***************************************************************************)
\* Number(v) for a query parameter value (null -> 0, non-numeric -> NaN)
JsNumber(v) ==
  CASE v = Absent -> 0
    [] v = "0" -> 0
    [] v = "1" -> 1
    [] v = "2" -> 2
    [] v = "01" -> 1
    [] OTHER -> NaN

\* Number(searchParams.get(k)) || 0
QpOf(v) == IF JsNumber(v) = NaN THEN 0 ELSE JsNumber(v)

\* String(n)
JsString(n) ==
  CASE n = 0 -> "0"
    [] n = 1 -> "1"
    [] n = 2 -> "2"
    [] OTHER -> "NaN"

(***************************************************************************)
(* Catalog lookups                                                         *)
(***************************************************************************)
\* Array.prototype.findIndex: first index satisfying the test, 0 if none
\* (indices are 1-based here)
RECURSIVE FirstIndex(_, _, _)
FirstIndex(seq, n, i) ==
  IF i > Len(seq) THEN 0
  ELSE IF seq[i] = n THEN i
  ELSE FirstIndex(seq, n, i + 1)

SeasonNumbers(ss) == [i \in 1..Len(ss) |-> ss[i].seasonNumber]
EpisodeNumbers(s) == [i \in 1..Len(s.episodes) |-> s.episodes[i].episodeNumber]

NoEpisode == [episodeNumber |-> NaN, playerUrl |-> NoUrl]

\* findEpisode: the episode, NoEpisode for null
findEpisode(ss, seasonNum, episodeNum) ==
  LET si == FirstIndex(SeasonNumbers(ss), seasonNum, 1) IN
    IF si = 0 THEN NoEpisode
    ELSE LET ei == FirstIndex(EpisodeNumbers(ss[si]), episodeNum, 1) IN
           IF ei = 0 THEN NoEpisode ELSE ss[si].episodes[ei]

isValidSelection(ss, seasonNum, episodeNum) ==
  findEpisode(ss, seasonNum, episodeNum) # NoEpisode

\* 1-based form of findSeasonIndex: the season's index, the first when absent
findSeasonIndex(ss, seasonNum) ==
  LET idx == FirstIndex(SeasonNumbers(ss), seasonNum, 1) IN
    IF idx # 0 THEN idx ELSE 1

firstSeason == IF Len(seasons) > 0 THEN seasons[1].seasonNumber ELSE 1
firstEpisode ==
  IF Len(seasons) > 0 /\ Len(seasons[1].episodes) > 0
  THEN seasons[1].episodes[1].episodeNumber ELSE 1

qpSeason == QpOf(url.season)
qpEpisode == QpOf(url.episode)

getInitialValues ==
  IF qpSeason > 0 /\ qpEpisode > 0 /\ isValidSelection(seasons, qpSeason, qpEpisode)
  THEN Pair(qpSeason, qpEpisode)
  ELSE IF lastWatched # NoRecord
          /\ isValidSelection(seasons, lastWatched.season, lastWatched.episode)
  THEN Pair(lastWatched.season, lastWatched.episode)
  ELSE Pair(firstSeason, firstEpisode)

(***************************************************************************)
(* Player URL of an episode                                                *)
(***************************************************************************)
\* getPlayerBaseUrlFromAnyPlayerUrl: origin + folder of a player URL
getPlayerBaseUrlFromAnyPlayerUrl(u) == u.base

\* buildPlayerUrl({base, id, detailPath, season, episode})
buildPlayerUrl(b, s, e) == PlayerUrl(b, s, e)

\* player URLs of the catalog's episodes, in catalog order
RECURSIVE EpisodeUrls(_, _)
EpisodeUrls(ss, i) ==
  IF i > Len(ss) THEN << >>
  ELSE [k \in 1..Len(ss[i].episodes) |-> ss[i].episodes[k].playerUrl]
       \o EpisodeUrls(ss, i + 1)

playerBaseUrl ==
  LET withUrl == SelectSeq(EpisodeUrls(seasons, 1), LAMBDA u : u # NoUrl) IN
    IF Len(withUrl) > 0 THEN getPlayerBaseUrlFromAnyPlayerUrl(withUrl[1])
    ELSE IF initialPlayerUrl # NoUrl THEN getPlayerBaseUrlFromAnyPlayerUrl(initialPlayerUrl)
    ELSE ""

computePlayerUrl(seasonNum, episodeNum) ==
  LET episode == findEpisode(seasons, seasonNum, episodeNum) IN
    IF episode.playerUrl # NoUrl THEN episode.playerUrl
    ELSE IF playerBaseUrl # "" THEN buildPlayerUrl(playerBaseUrl, seasonNum, episodeNum)
    ELSE initialPlayerUrl

(***************************************************************************)
(* Stream sources: upstream -> /api/stream route -> client                 *)
(***************************************************************************)
\* What the upstream call of the route ends in
UpstreamOutcomes == {"ok", "timeout", "transport", "non2xx", "badjson", "nonobject"}

Download(req) == [url |-> "mp4", for |-> req]
Caption(req) == [url |-> "vtt", for |-> req]

\* A field of the upstream JSON: a valid array of items, or a value the
\* array schema rejects
Field(valid, items) == [valid |-> valid, items |-> items]

\* A JSON object of the upstream: its downloads / captions hold one item each
\* when asked to, an empty array otherwise
Payload(withDownload, withCaption, req) ==
  [downloads |-> Field(TRUE, IF withDownload THEN << Download(req) >> ELSE << >>),
   captions |-> Field(TRUE, IF withCaption THEN << Caption(req) >> ELSE << >>)]

\* JSON objects the upstream may answer a request with
Payloads(req) ==
  { [downloads |-> d, captions |-> c] :
      d \in {Field(FALSE, << >>), Field(TRUE, << >>), Field(TRUE, << Download(req) >>)},
      c \in {Field(FALSE, << >>), Field(TRUE, << >>), Field(TRUE, << Caption(req) >>)} }

EmptyBody(status) ==
  [status |-> status, downloads |-> << >>, captions |-> << >>]

\* StreamResponseSchema.parse of a JSON object: each field falls back to []
StreamResponseSchemaParse(payload) ==
  [downloads |-> IF payload.downloads.valid THEN payload.downloads.items ELSE << >>,
   captions |-> IF payload.captions.valid THEN payload.captions.items ELSE << >>]

\* GET /api/stream: the response the route sends
RouteGET(hasDetailPath, outcome, payload) ==
  IF ~hasDetailPath THEN EmptyBody(400)
  ELSE IF outcome = "non2xx" THEN EmptyBody(200)
  ELSE IF outcome \in {"timeout", "transport", "badjson", "nonobject"} THEN EmptyBody(200)
  ELSE LET parsed == StreamResponseSchemaParse(payload) IN
         [status |-> 200, downloads |-> parsed.downloads, captions |-> parsed.captions]

\* How the client's own request to the route ends
ClientOutcomes == {"ok", "timeout", "transport", "throws"}

\* fetchStreamSources (lib/api): a Result, or an exception
fetchStreamSources(resp, client) ==
  IF client = "throws" THEN [threw |-> TRUE, ok |-> FALSE, downloads |-> << >>, captions |-> << >>]
  ELSE IF client = "ok" /\ resp.status = 200
  THEN [threw |-> FALSE, ok |-> TRUE, downloads |-> resp.downloads, captions |-> resp.captions]
  ELSE [threw |-> FALSE, ok |-> FALSE, downloads |-> << >>, captions |-> << >>]

\* loadStreamSources storing whatever the result holds when it has no downloads
loadStreamSourcesKeepingResult(result, req) ==
  [downloads |-> result.downloads, captions |-> result.captions,
   playerUrl |-> computePlayerUrl(req.season, req.episode)]

\* loadStreamSources after the await: the stream state it sets
loadStreamSourcesResult(result, req) ==
  LET fallbackUrl == computePlayerUrl(req.season, req.episode) IN
    IF ~result.threw /\ result.ok /\ Len(result.downloads) > 0
    THEN [downloads |-> result.downloads, captions |-> result.captions,
          playerUrl |-> fallbackUrl]
    ELSE [downloads |-> << >>, captions |-> << >>, playerUrl |-> fallbackUrl]

(***************************************************************************)
(* EpisodePlayer                                                           *)
(***************************************************************************)
InitEpisodePlayer ==
  /\ \E t \in Titles : seasons = t.seasons /\ initialPlayerUrl = t.initialPlayerUrl
  /\ url \in [season : ParamValues, episode : ParamValues, ref : RefValues]
  /\ navQueue = << >>
  /\ lastWatched \in StoredRecords
  /\ pc = "unmounted"
  /\ sel = NoRecord
  /\ seen = NoSeen
  /\ isLoadingStream = TRUE
  /\ streamState = [downloads |-> << >>, captions |-> << >>, playerUrl |-> initialPlayerUrl]
  /\ inflight = << >>
  /\ lastSettle = NoSettle

\* No VideoPlayerInner is mounted
InitVideoPlayer ==
  /\ vpc = "unmounted"
  /\ embedSrc = NoUrl
  /\ streamUrl = FALSE
  /\ isLoading = FALSE
  /\ mode = "direct"
  /\ directFailed = FALSE
  /\ swr = SwrIdle
  /\ vseen = NoVSeen
  /\ touched = FALSE
  /\ swrSettle = NoSettle
  /\ vkey = NoKey
  /\ sep = NoSep

\* First render: useState(initial.season / initial.episode)
Mount ==
  /\ pc = "unmounted"
  /\ pc' = "mounted"
  /\ sel' = getInitialValues
  /\ UNCHANGED <<otherVars, vpVars, lastSettle, seasons, initialPlayerUrl, url, navQueue, lastWatched,
                 seen, isLoadingStream, streamState, inflight>>

\* Some effect dependency changed since the last commit
Dirty == pc = "mounted" /\ (seen.first \/ seen.sel # sel \/ seen.url # url)

\* The component is idle: the next event may be taken
Idle ==
  /\ pc = "mounted"
  /\ ~Dirty
  /\ Len(navQueue) < MaxNav
  /\ Len(inflight) < MaxFetch

\* setSelectedSeason(n) / setSelectedEpisode(n): a queued state update
setSelectedSeason(n) == [field |-> "season", value |-> n]
setSelectedEpisode(n) == [field |-> "episode", value |-> n]

\* React committing one queued update per render
Unbatched(s, updates) ==
  IF updates = << >> THEN s
  ELSE IF updates[1].field = "season" THEN [s EXCEPT !.season = updates[1].value]
  ELSE [s EXCEPT !.episode = updates[1].value]

\* React batching: the updates a handler or an effect queued are all
\* applied before the next render
RECURSIVE Batched(_, _)
Batched(s, updates) ==
  IF updates = << >> THEN s
  ELSE Batched(Unbatched(s, updates), Tail(updates))

\* EFFECT #1, URL -> State: the Selection it sets
UrlToState(s) ==
  IF qpSeason > 0 /\ qpEpisode > 0 /\ isValidSelection(seasons, qpSeason, qpEpisode)
  THEN Batched(s, (IF qpSeason # s.season THEN <<setSelectedSeason(qpSeason)>> ELSE << >>)
                  \o (IF qpEpisode # s.episode THEN <<setSelectedEpisode(qpEpisode)>> ELSE << >>))
  ELSE s

\* EFFECT #2 building the query from scratch instead of copying searchParams
StateToUrlFresh(s) ==
  LET nextSeason == JsString(s.season)
      nextEpisode == JsString(s.episode)
  IN IF url.season = nextSeason /\ url.episode = nextEpisode
     THEN << >>
     ELSE << [season |-> nextSeason, episode |-> nextEpisode, ref |-> Absent] >>

\* EFFECT #2, State -> URL: the router.replace calls it makes
StateToUrl(s) ==
  LET nextSeason == JsString(s.season)
      nextEpisode == JsString(s.episode)
  IN IF url.season = nextSeason /\ url.episode = nextEpisode
     THEN << >>
     ELSE << [url EXCEPT !.season = nextSeason, !.episode = nextEpisode] >>

\* playerKey, and the key VideoPlayer gives VideoPlayerInner (contentId is fixed)
playerKey(s) == <<JsString(s.season), JsString(s.episode)>>
\* VideoPlayer keying VideoPlayerInner by a constant
playerKeyConstant(k) == <<"player">>
VideoPlayerKey(k) == k

\* VideoPlayerInner mounts under a key: useState initial values, props
FreshPlayer(key) ==
  /\ vpc' = "mounted"
  /\ vkey' = key
  /\ embedSrc' \in {NoUrl, PlayerUrl("title", NaN, NaN)}
  /\ streamUrl' \in BOOLEAN
  /\ isLoading' \in BOOLEAN
  /\ mode' = "direct"
  /\ directFailed' = FALSE
  /\ swr' = [SwrIdle EXCEPT !.isLoading = streamUrl']
  /\ vseen' = NoVSeen
  /\ touched' = FALSE
  /\ swrSettle' = NoSettle
  /\ sep' = NoSep

\* Commit of a render and its effects
Render ==
  /\ Dirty
  /\ LET qpChanged == Pair(QpOf(seen.url.season), QpOf(seen.url.episode))
                        # Pair(qpSeason, qpEpisode)
         runUrlToState == seen.first \/ qpChanged
         runStateToUrl == seen.first \/ seen.sel # sel \/ seen.url # url
         runLoad == seen.first \/ seen.sel # sel
     IN /\ sel' = IF runUrlToState THEN UrlToState(sel) ELSE sel
        /\ navQueue' = IF runStateToUrl THEN navQueue \o StateToUrl(sel) ELSE navQueue
        /\ IF runLoad
           THEN /\ isLoadingStream' = TRUE
                /\ inflight' = Append(inflight, sel)
           ELSE UNCHANGED <<isLoadingStream, inflight>>
  /\ seen' = [sel |-> sel, url |-> url, qp |-> Pair(qpSeason, qpEpisode), first |-> FALSE]
  /\ IF vpc = "mounted" /\ VideoPlayerKey(playerKey(sel)) # vkey
     THEN FreshPlayer(VideoPlayerKey(playerKey(sel)))
     ELSE UNCHANGED vpVars
  /\ UNCHANGED <<otherVars, lastSettle, seasons, initialPlayerUrl, url, lastWatched, pc,
                 streamState>>

\* updateLastWatched(season, episode): the record it stores
updateLastWatched(s, e) == Pair(s, e)

handleSeasonChange(index) ==
  /\ Idle
  /\ LET newSeason == seasons[index].seasonNumber
         firstEp == IF Len(seasons[index].episodes) > 0
                    THEN seasons[index].episodes[1].episodeNumber ELSE 1
     IN /\ sel' = Batched(sel, <<setSelectedSeason(newSeason), setSelectedEpisode(firstEp)>>)
        /\ lastWatched' = updateLastWatched(newSeason, firstEp)
  /\ UNCHANGED <<otherVars, vpVars, lastSettle, seasons, initialPlayerUrl, url, navQueue, pc, seen,
                 isLoadingStream, streamState, inflight>>

handleEpisodeSelect(seasonNum, episodeNum) ==
  /\ Idle
  /\ sel' = Batched(sel, <<setSelectedSeason(seasonNum), setSelectedEpisode(episodeNum)>>)
  /\ lastWatched' = updateLastWatched(seasonNum, episodeNum)
  /\ UNCHANGED <<otherVars, vpVars, lastSettle, seasons, initialPlayerUrl, url, navQueue, pc, seen,
                 isLoadingStream, streamState, inflight>>

\* The "Continue" button is rendered
ContinueVisible ==
  /\ lastWatched # NoRecord
  /\ (lastWatched.season # sel.season \/ lastWatched.episode # sel.episode)

handleContinueWatching ==
  /\ pc = "mounted"
  /\ ContinueVisible
  /\ handleEpisodeSelect(lastWatched.season, lastWatched.episode)

\* A click on an episode row of EpisodeBrowser
SelectEpisode ==
  /\ pc = "mounted"
  /\ LET currentSeason == seasons[findSeasonIndex(seasons, sel.season)] IN
       \E k \in 1..Len(currentSeason.episodes) :
         handleEpisodeSelect(currentSeason.seasonNumber,
                             currentSeason.episodes[k].episodeNumber)

\* A click on a season of EpisodeBrowser's dropdown
SelectSeason == \E index \in 1..Len(seasons) : handleSeasonChange(index)

\* A render after mount calling getInitialValues again and taking its result
SeedEveryRender(current, initial) == initial

\* A render after mount: initialRef.current is set, so getInitialValues is
\* not called, and useState keeps the state it has
SeedAfterMount(current, initial) == current

\* The stored record of the title changes (another tab, or this one) and the
\* storage event reaches useLastWatched: the component renders again with
\* the new lastWatched; no effect has lastWatched among its dependencies
LastWatchedStorageEvent ==
  /\ pc = "mounted" /\ ~Dirty
  /\ \E r \in StoredRecords :
       /\ r # lastWatched
       /\ lastWatched' = r
  /\ UNCHANGED <<otherVars, vpVars, lastSettle, seasons, initialPlayerUrl, url, navQueue, pc, seen,
                 isLoadingStream, streamState, inflight>>
  /\ sel' = SeedAfterMount(sel, getInitialValues')

\* Browser back / forward, or an edited address
ExternalUrlChange ==
  /\ Idle
  /\ \E u \in [season : ParamValues, episode : ParamValues, ref : RefValues] :
       /\ u # url
       /\ url' = u
  /\ UNCHANGED <<otherVars, vpVars, lastSettle, seasons, initialPlayerUrl, navQueue, lastWatched, pc, sel, seen,
                 isLoadingStream, streamState, inflight>>

\* The oldest pending router.replace commits
NavCommit ==
  /\ pc = "mounted" /\ ~Dirty
  /\ Len(navQueue) > 0
  /\ Len(inflight) < MaxFetch
  /\ url' = Head(navQueue)
  /\ navQueue' = Tail(navQueue)
  /\ UNCHANGED <<otherVars, vpVars, lastSettle, seasons, initialPlayerUrl, lastWatched, pc, sel, seen,
                 isLoadingStream, streamState, inflight>>

\* A newer navigation supersedes the pending one
NavDiscard ==
  /\ pc = "mounted" /\ ~Dirty
  /\ Len(navQueue) > 1
  /\ navQueue' = Tail(navQueue)
  /\ UNCHANGED <<otherVars, vpVars, lastSettle, seasons, initialPlayerUrl, url, lastWatched, pc, sel, seen,
                 isLoadingStream, streamState, inflight>>

RemoveAt(seq, i) == SubSeq(seq, 1, i - 1) \o SubSeq(seq, i + 1, Len(seq))

\* The ways a stream request may go: <<upstream outcome, upstream JSON, client
\* outcome>>.  The JSON matters only when the upstream answers, the upstream
\* only when the client's request to the route succeeds.
SettleCases(req) ==
  {<<"ok", payload, "ok">> : payload \in Payloads(req)}
  \cup {<<outcome, Payload(FALSE, FALSE, req), "ok">> : outcome \in UpstreamOutcomes \ {"ok"}}
  \cup {<<"ok", Payload(TRUE, TRUE, req), client>> : client \in ClientOutcomes \ {"ok"}}

\* The request went the way of "no direct source": it failed somewhere, or
\* the upstream's downloads are missing, invalid or empty
NoDirectCase(c) ==
  \/ c[1] # "ok"
  \/ c[3] # "ok"
  \/ ~c[2].downloads.valid
  \/ Len(c[2].downloads.items) = 0

\* An outstanding loadStreamSources call resumes after its await
FetchSettle ==
  /\ pc = "mounted" /\ ~Dirty
  /\ \E i \in 1..Len(inflight) :
       \E c \in SettleCases(inflight[i]) :
         LET resp == RouteGET(TRUE, c[1], c[2]) IN
           /\ streamState' = loadStreamSourcesResult(fetchStreamSources(resp, c[3]),
                                                     inflight[i])
           /\ isLoadingStream' = FALSE
           /\ inflight' = RemoveAt(inflight, i)
           /\ lastSettle' = [settled |-> TRUE, noDirect |-> NoDirectCase(c),
                             status |-> resp.status, req |-> inflight[i]]
  /\ UNCHANGED <<otherVars, vpVars, seasons, initialPlayerUrl, url, navQueue, lastWatched,
                 pc, sel, seen>>

(***************************************************************************)
(* VideoPlayerInner                                                        *)
(***************************************************************************)
\* useSWR option errorRetryCount
errorRetryCount == 1


\* The sandbox tokens of SandboxedEmbedPlayer's iframe
IFRAME_SANDBOX == {"allow-scripts", "allow-same-origin", "allow-forms", "allow-presentation"}
\* The iframe SandboxedEmbedPlayer renders: its sandbox and referrerPolicy
SandboxedEmbedIframe ==
  [sandboxed |-> TRUE, sandbox |-> IFRAME_SANDBOX, referrerPolicy |-> "no-referrer"]

\* The request the player's SWR key names
PlayerReq == vkey

streamLoading == swr.isLoading
hasDirectSources == Len(swr.data.downloads) > 0
hasCaptions == Len(swr.data.captions) > 0
hasEmbed == embedSrc # NoUrl

\* streamFetcher: the parsed body, or an exception
streamFetcher(resp, client) ==
  IF client # "ok" \/ resp.status # 200
  THEN [threw |-> TRUE, data |-> NoData]
  ELSE [threw |-> FALSE,
        data |-> [loaded |-> TRUE, downloads |-> resp.downloads, captions |-> resp.captions]]

\* What VideoPlayerInner renders
Surface ==
  IF isLoading \/ streamLoading THEN "loading"
  ELSE IF ~hasDirectSources /\ ~hasEmbed THEN "unavailable"
  ELSE IF mode = "direct" /\ hasDirectSources /\ ~directFailed THEN "direct"
  ELSE IF mode = "embed-sandboxed" /\ hasEmbed THEN "embed"
  ELSE IF hasEmbed THEN "fallback"
  ELSE "none"

\* The ModeSelector is rendered, and the buttons it shows
ModeSelectorShown ==
  /\ Surface \notin {"loading", "unavailable"}
  /\ (hasDirectSources \/ hasEmbed)
  /\ ((hasDirectSources # ~hasEmbed) \/ directFailed)
\* ModeSelector given hasDirectSources without the directFailed test
DirectButtonIgnoringFailure == ModeSelectorShown /\ hasDirectSources
DirectButtonShown == ModeSelectorShown /\ hasDirectSources /\ ~directFailed
EmbedButtonShown == ModeSelectorShown /\ hasEmbed
ExternalButtonShown == ModeSelectorShown /\ hasEmbed /\ embedSrc # NoUrl

VDirty ==
  /\ vpc = "mounted"
  /\ \/ vseen.first
     \/ vseen.streamLoading # streamLoading
     \/ vseen.hasDirectSources # hasDirectSources
     \/ vseen.hasEmbed # hasEmbed
     \/ vseen.directFailed # directFailed

VIdle == vpc = "mounted" /\ ~VDirty

\* The iframe SandboxedEmbedPlayer renders is the one the step leaves: it
\* keeps its state while the embed surface stays, is fresh when the surface
\* appears, and is gone with it
SepFollows ==
  IF Surface' = "embed" /\ vpc' = "mounted"
  THEN IF sep.mounted THEN sep' = sep
       ELSE \E f \in IframeFates : sep' = FreshSep(f)
  ELSE sep' = NoSep

\* <VideoPlayerInner key={key} ... /> mounts
PlayerMount ==
  /\ pc = "mounted" /\ ~Dirty
  /\ vpc = "unmounted"
  /\ FreshPlayer(VideoPlayerKey(playerKey(sel)))
  /\ UNCHANGED <<otherVars, epVars>>

\* EpisodePlayer leaves the page: the player is torn down
PlayerUnmount ==
  /\ VIdle
  /\ vpc' = "unmounted"
  /\ embedSrc' = NoUrl
  /\ streamUrl' = FALSE
  /\ isLoading' = FALSE
  /\ mode' = "direct"
  /\ directFailed' = FALSE
  /\ swr' = SwrIdle
  /\ vseen' = NoVSeen
  /\ touched' = FALSE
  /\ swrSettle' = NoSettle
  /\ vkey' = NoKey
  /\ sep' = NoSep
  /\ UNCHANGED <<otherVars, epVars>>

\* The auto-switch effects: the mode they leave
AutoSwitchUnavailable(m) ==
  IF ~streamLoading /\ ~hasDirectSources /\ hasEmbed THEN "embed-sandboxed" ELSE m
AutoSwitchFailed(m) ==
  IF directFailed /\ hasEmbed THEN "embed-sandboxed" ELSE m

\* Commit of a render of VideoPlayerInner and its effects
VRender ==
  /\ VDirty
  /\ LET runUnavailable == \/ vseen.first
                           \/ vseen.streamLoading # streamLoading
                           \/ vseen.hasDirectSources # hasDirectSources
                           \/ vseen.hasEmbed # hasEmbed
         runFailed == \/ vseen.first
                      \/ vseen.directFailed # directFailed
                      \/ vseen.hasEmbed # hasEmbed
         m1 == IF runUnavailable THEN AutoSwitchUnavailable(mode) ELSE mode
     IN mode' = IF runFailed THEN AutoSwitchFailed(m1) ELSE m1
  /\ vseen' = [streamLoading |-> streamLoading, hasDirectSources |-> hasDirectSources,
               hasEmbed |-> hasEmbed, directFailed |-> directFailed, first |-> FALSE]
  /\ UNCHANGED <<otherVars, epVars, vpc, vkey, embedSrc, streamUrl, isLoading, directFailed, swr,
                 touched, swrSettle>>
  /\ SepFollows

\* The SWR request settles
SwrSettle ==
  /\ VIdle
  /\ swr.isLoading
  /\ \E c \in SettleCases(PlayerReq) :
       LET resp == RouteGET(streamUrl, c[1], c[2])
           r == streamFetcher(resp, c[3])
       IN /\ swr' = IF r.threw
                    THEN [swr EXCEPT !.isLoading = FALSE, !.error = TRUE]
                    ELSE [swr EXCEPT !.isLoading = FALSE, !.error = FALSE, !.data = r.data]
          /\ swrSettle' = [settled |-> TRUE, noDirect |-> NoDirectCase(c),
                           status |-> resp.status, req |-> PlayerReq]
  /\ UNCHANGED <<otherVars, epVars, vpc, vkey, embedSrc, streamUrl, isLoading, mode, directFailed,
                 vseen, touched>>
  /\ SepFollows

\* SWR retries the failed request
SwrRetry ==
  /\ VIdle
  /\ swr.error /\ ~swr.isLoading
  /\ swr.retryCount < errorRetryCount
  /\ swr' = [swr EXCEPT !.isLoading = ~swr.data.loaded, !.retryCount = @ + 1]
  /\ UNCHANGED <<otherVars, epVars, vpc, vkey, embedSrc, streamUrl, isLoading, mode, directFailed,
                 vseen, touched, swrSettle>>
  /\ SepFollows

\* The parent's isLoading prop changes
ParentLoading ==
  /\ VIdle
  /\ isLoading' = ~isLoading
  /\ UNCHANGED <<otherVars, epVars, vpc, vkey, embedSrc, streamUrl, mode, directFailed, swr, vseen,
                 touched, swrSettle>>
  /\ SepFollows

\* The video element of the direct surface reports an error
handleDirectError ==
  /\ VIdle
  /\ Surface = "direct"
  /\ directFailed' = TRUE
  /\ touched' = TRUE
  /\ UNCHANGED <<otherVars, epVars, vpc, vkey, embedSrc, streamUrl, isLoading, mode, swr, vseen, swrSettle>>
  /\ SepFollows

handleModeChange(newMode) ==
  /\ VIdle
  /\ IF newMode = "external" /\ hasEmbed
     THEN UNCHANGED <<mode, directFailed>>
     ELSE /\ mode' = newMode
          /\ directFailed' = IF newMode = "direct" THEN FALSE ELSE directFailed
  /\ touched' = TRUE
  /\ UNCHANGED <<otherVars, epVars, vpc, vkey, embedSrc, streamUrl, isLoading, swr, vseen, swrSettle>>
  /\ SepFollows

\* A click on "Safe Player" of the ModeSelector
ClickDirect == DirectButtonShown /\ handleModeChange("direct")

\* A click on "Embed (Sandboxed)" of the ModeSelector
ClickEmbed == EmbedButtonShown /\ handleModeChange("embed-sandboxed")

\* SandboxedEmbedPlayer.handleLoad: the iframe fires load
handleLoad ==
  /\ VIdle
  /\ sep.mounted /\ ~sep.hasError /\ sep.isLoading
  /\ sep.iframe = "loads"
  /\ sep' = [sep EXCEPT !.isLoading = FALSE]
  /\ UNCHANGED <<otherVars, epVars, vpc, vkey, embedSrc, streamUrl, isLoading, mode, directFailed,
                 swr, vseen, touched, swrSettle>>

\* SandboxedEmbedPlayer.handleError: the iframe fires error
handleError ==
  /\ VIdle
  /\ sep.mounted /\ ~sep.hasError /\ sep.isLoading
  /\ sep.iframe = "fails"
  /\ sep' = [sep EXCEPT !.isLoading = FALSE, !.hasError = TRUE]
  /\ UNCHANGED <<otherVars, epVars, vpc, vkey, embedSrc, streamUrl, isLoading, mode, directFailed,
                 swr, vseen, touched, swrSettle>>

(***************************************************************************)
(* The last-watched store                                                  *)
(***************************************************************************)
\* Date.now() values a run goes through
MaxNow == 1

\* Titles with a last-watched key, and the useLastWatched instances on the
\* page with the title each was called with
TitleKeys == {"a", "b"}
Hooks == {"h1", "h2", "h3"}
HookTitle(h) == IF h = "h3" THEN "b" ELSE "a"

\* getStorageKey; the key of a StorageEvent of localStorage.clear()
getStorageKey(titleKey) == <<"noirflix_last_watched", titleKey>>
NullKey == <<"null">>

\* JSON values: a scalar; a value with the fields an object may hold (a
\* value that is no object holds none of them)
Scalar(type, n) == [type |-> type, n |-> n]
NoField == Scalar("absent", 0)
Json(type, s, e, u, p) ==
  [type |-> type, season |-> s, episode |-> e, updatedAt |-> u, playbackTime |-> p]
JsonObject(s, e, u, p) == Json("object", s, e, u, p)
JsonOther(type) == Json(type, NoField, NoField, NoField, NoField)

\* What localStorage holds under a key: nothing, or a string, which is
\* empty, no JSON text, or the text of a JSON value
Missing == [kind |-> "missing", json |-> JsonOther("none")]
EmptyString == [kind |-> "empty", json |-> JsonOther("none")]
Garbage == [kind |-> "garbage", json |-> JsonOther("none")]
JsonText(v) == [kind |-> "json", json |-> v]

\* Values the store may hold that this code did not write: no JSON, JSON
\* that is no object, an object with numeric season, episode, updatedAt, and
\* objects where one of the three is missing or no number
StoredValues ==
  {Missing, EmptyString, Garbage, JsonText(JsonOther("null")), JsonText(JsonOther("array")),
   JsonText(JsonObject(Scalar("number", 2), Scalar("number", 2), Scalar("number", 0), NoField)),
   JsonText(JsonObject(Scalar("string", 2), Scalar("number", 2), Scalar("number", 0), NoField)),
   JsonText(JsonObject(Scalar("number", 2), Scalar("null", 0), Scalar("number", 0), NoField)),
   JsonText(JsonObject(Scalar("number", 2), Scalar("number", 2), NoField, NoField))}

\* JSON.stringify of a LastWatchedData (playbackTime: undefined is left out)
JsonStringify(data) ==
  JsonText(JsonObject(Scalar("number", data.season), Scalar("number", data.episode),
                      Scalar("number", data.updatedAt), NoField))
\* JSON.parse
JsonParse(raw) ==
  IF raw.kind = "json" THEN [threw |-> FALSE, value |-> raw.json]
  ELSE [threw |-> TRUE, value |-> JsonOther("none")]

\* The shape test of getLastWatched / useLastWatched
ValidShape(parsed) ==
  /\ parsed.type = "object"
  /\ parsed.season.type # "absent"
  /\ parsed.episode.type # "absent"
  /\ parsed.updatedAt.type # "absent"
  /\ parsed.season.type = "number"
  /\ parsed.episode.type = "number"
  /\ parsed.updatedAt.type = "number"

\* A read's result: null, or the parsed object
Null == [threw |-> FALSE, isNull |-> TRUE, value |-> JsonOther("none")]
Parsed(v) == [threw |-> FALSE, isNull |-> FALSE, value |-> v]

\* The shape test without its updatedAt part
ParseStoredLoosely(raw) ==
  IF raw.kind \in {"missing", "empty"} THEN Null
  ELSE LET parsed == JsonParse(raw) IN
         IF parsed.threw THEN Null
         ELSE IF /\ parsed.value.type = "object"
                 /\ parsed.value.season.type = "number"
                 /\ parsed.value.episode.type = "number"
              THEN Parsed(parsed.value)
              ELSE Null
\* The body both readers share: "if (!stored) return null", JSON.parse inside
\* try / catch, the shape test
ParseStored(raw) ==
  IF raw.kind \in {"missing", "empty"} THEN Null
  ELSE LET parsed == JsonParse(raw) IN
         IF parsed.threw THEN Null
         ELSE IF ValidShape(parsed.value) THEN Parsed(parsed.value) ELSE Null

\* getLastWatched(titleKey)
getLastWatched(store, titleKey) == ParseStored(store[titleKey])
\* useLastWatched: getSnapshot (getItem(...) ?? ""), and the useMemo on it
getSnapshot(store, titleKey) ==
  IF store[titleKey].kind = "missing" THEN EmptyString ELSE store[titleKey]
useLastWatchedValue(raw) == ParseStored(raw)

\* A useLastWatched instance that is not mounted
NoSub == [mounted |-> FALSE, raw |-> EmptyString]
\* No call of the API yet
NoCall == [op |-> "none", title |-> "none", episode |-> 0,
           writeFailed |-> FALSE, threw |-> FALSE, n |-> 0]
Call(op, title, e, failed, threw) ==
  [op |-> op, title |-> title, episode |-> e,
   writeFailed |-> failed, threw |-> threw, n |-> 1 - lwCall.n]

InitLastWatchedIdle ==
  /\ lwStore = [k \in TitleKeys |-> Missing]
  /\ lwSubs = [h \in Hooks |-> NoSub]
  /\ lwNotified = {}
  /\ lwCall = NoCall

\* The instances whose handleStorage passes an event of the key on
Listeners(subs, key) ==
  {h \in Hooks : subs[h].mounted /\ (key = getStorageKey(HookTitle(h)) \/ key = NullKey)}

\* The store a listener reads when dispatchEvent runs before the write
storeBeforeWrite(before, after) == before
\* The store a listener reads: dispatchEvent runs after setItem / removeItem
storeAtDispatch(before, after) == after

\* window.dispatchEvent(new StorageEvent("storage", { key })): the callbacks
\* run, and React reads the snapshot again
Dispatch(subs, store, key) ==
  [h \in Hooks |-> IF h \in Listeners(subs, key)
                   THEN [subs[h] EXCEPT !.raw = getSnapshot(store, HookTitle(h))]
                   ELSE subs[h]]

LwUnchanged == UNCHANGED <<epVars, vpVars, eoVars, wpVars, restVars>>

\* A component calling useLastWatched(titleKey) mounts / unmounts
LwHookMount ==
  /\ \E h \in Hooks :
       /\ ~lwSubs[h].mounted
       /\ lwSubs' = [lwSubs EXCEPT ![h] = [mounted |-> TRUE,
                                           raw |-> getSnapshot(lwStore, HookTitle(h))]]
  /\ lwNotified' = {}
  /\ UNCHANGED <<lwStore, lwCall, now>>
  /\ LwUnchanged

LwHookUnmount ==
  /\ \E h \in Hooks :
       /\ lwSubs[h].mounted
       /\ lwSubs' = [lwSubs EXCEPT ![h] = NoSub]
  /\ lwNotified' = {}
  /\ UNCHANGED <<lwStore, lwCall, now>>
  /\ LwUnchanged

\* A write of localStorage and the dispatch after it
WriteAndDispatch(title, raw) ==
  LET key == getStorageKey(title)
      after == [lwStore EXCEPT ![title] = raw]
  IN /\ lwStore' = after
     /\ lwSubs' = Dispatch(lwSubs, storeAtDispatch(lwStore, after), key)
     /\ lwNotified' = Listeners(lwSubs, key)

\* updateLastWatched of a useLastWatched instance (no try / catch): setItem
\* may throw (quota exceeded, storage disabled)
hookUpdateLastWatched ==
  /\ \E h \in Hooks, e \in {1, 2}, failed \in BOOLEAN :
       /\ lwSubs[h].mounted
       /\ lwCall' = Call("updateLastWatched", HookTitle(h), e, failed, failed)
       /\ IF failed
          THEN /\ lwNotified' = {}
               /\ UNCHANGED <<lwStore, lwSubs>>
          ELSE WriteAndDispatch(HookTitle(h),
                 JsonStringify([season |-> 1, episode |-> e, updatedAt |-> now]))
  /\ UNCHANGED now
  /\ LwUnchanged

\* setLastWatched(titleKey, data): setItem and dispatchEvent inside try / catch
setLastWatched ==
  /\ \E title \in TitleKeys, e \in {1, 2}, failed \in BOOLEAN :
       /\ lwCall' = Call("setLastWatched", title, e, failed, FALSE)
       /\ IF failed
          THEN /\ lwNotified' = {}
               /\ UNCHANGED <<lwStore, lwSubs>>
          ELSE WriteAndDispatch(title,
                 JsonStringify([season |-> 1, episode |-> e, updatedAt |-> now]))
  /\ UNCHANGED now
  /\ LwUnchanged

\* clearLastWatched: removeItem and dispatchEvent
clearLastWatched ==
  /\ \E title \in TitleKeys :
       /\ lwCall' = Call("clearLastWatched", title, 0, FALSE, FALSE)
       /\ WriteAndDispatch(title, Missing)
  /\ UNCHANGED now
  /\ LwUnchanged

\* Another tab writes the key: the browser delivers the storage event
LwOtherTabWrite ==
  /\ \E title \in TitleKeys, raw \in StoredValues :
       /\ raw # lwStore[title]
       /\ lwCall' = Call("other-tab", title, 0, FALSE, FALSE)
       /\ WriteAndDispatch(title, raw)
  /\ UNCHANGED now
  /\ LwUnchanged

\* Another tab calls localStorage.clear(): the event's key is null
LwOtherTabClear ==
  /\ lwStore' = [k \in TitleKeys |-> Missing]
  /\ lwSubs' = Dispatch(lwSubs, lwStore', NullKey)
  /\ lwNotified' = Listeners(lwSubs, NullKey)
  /\ lwCall' = Call("other-tab-clear", "none", 0, FALSE, FALSE)
  /\ UNCHANGED now
  /\ LwUnchanged

\* Time passes
Tick ==
  /\ now < MaxNow
  /\ now' = now + 1
  /\ UNCHANGED <<epVars, vpVars, eoVars, lwVars, wpVars, restVars>>

(***************************************************************************)
(* Watch progress                                                          *)
(***************************************************************************)
\* Records of other titles the store holds when the page opens
MaxBulk == 22
\* updateProgress / clearProgress calls of a run
MaxProgressCalls == 2

\* "noirflix:progress".  A string is modelled by what split(":") makes of it:
\* the sequence of its colon-free segments
STORAGE_KEY_PREFIX == <<"noirflix", "progress">>
\* The percentage below which an entry is listed by getContinueWatching
continueBelow == 90
\* The percentage from which isWatched reports true
watchedFrom == 90
\* The length getContinueWatching cuts its result to
continueLimit == 20

\* An optional number: undefined, or a number
Undefined == << >>
Some(n) == <<n>>

\* Title identifiers ("a", "a:1"), the episodes and the percentages
\* updateProgress is called with (Undefined: data without a percentage)
DetailPaths == {<<"a">>, <<"a", "1">>}
Episodes == {<<Some(1), Some(1)>>, <<Some(1), Some(2)>>}
Percentages == {Undefined, Some(0), Some(89), Some(90)}

\* buildKey(detailPath, season, episode)
buildKey(detailPath, season, episode) ==
  IF season # Undefined /\ episode # Undefined
  THEN STORAGE_KEY_PREFIX \o detailPath \o <<JsString(season[1]), JsString(episode[1])>>
  ELSE STORAGE_KEY_PREFIX \o detailPath

\* parseInt of a key segment
parseInt(s) ==
  CASE s = "0" -> 0
    [] s = "1" -> 1
    [] s = "2" -> 2
    [] OTHER -> NaN

\* key.replace(`${STORAGE_KEY_PREFIX}:`, "").split(":")
keyParts(key) ==
  IF Len(key) > Len(STORAGE_KEY_PREFIX)
     /\ SubSeq(key, 1, Len(STORAGE_KEY_PREFIX)) = STORAGE_KEY_PREFIX
  THEN SubSeq(key, Len(STORAGE_KEY_PREFIX) + 1, Len(key))
  ELSE key

\* The .map(...) of getContinueWatching: the item made of an entry
toItem(entry) ==
  LET parts == keyParts(entry.key) IN
    [detailPath |-> <<parts[1]>>,
     progress |-> entry.value,
     season |-> IF Len(parts) >= 2 /\ parts[2] # "" THEN Some(parseInt(parts[2]))
                ELSE Undefined,
     episode |-> IF Len(parts) >= 3 /\ parts[3] # "" THEN Some(parseInt(parts[3]))
                 ELSE Undefined]

\* The .filter(...) of getContinueWatching over Object.entries(progressMap)
qualifies(value) == value.percentage > 0 /\ value.percentage < continueBelow
QualifyingEntries(map) == SelectSeq(map, LAMBDA entry : qualifies(entry.value))

\* Array.prototype.sort with (a, b) => b.progress.timestamp -
\* a.progress.timestamp: stable, newest first
RECURSIVE InsertByTimestamp(_, _)
InsertByTimestamp(sorted, item) ==
  IF sorted = << >> THEN <<item>>
  ELSE IF Head(sorted).progress.timestamp >= item.progress.timestamp
       THEN <<Head(sorted)>> \o InsertByTimestamp(Tail(sorted), item)
       ELSE <<item>> \o sorted
\* The items left in the order of Object.entries
SortInsertionOrder(items) == items
RECURSIVE SortByTimestamp(_)
SortByTimestamp(items) ==
  IF items = << >> THEN << >>
  ELSE InsertByTimestamp(SortByTimestamp(SubSeq(items, 1, Len(items) - 1)),
                         items[Len(items)])

\* items.slice(0, 20)
Slice(items) ==
  IF Len(items) > continueLimit THEN SubSeq(items, 1, continueLimit) ELSE items

getContinueWatching(map) ==
  LET entries == QualifyingEntries(map)
      items == [i \in 1..Len(entries) |-> toItem(entries[i])]
  IN Slice(SortByTimestamp(items))

\* progressMap[key]: the index of the key's entry, 0 for none
IndexOf(map, key) ==
  IF \E i \in 1..Len(map) : map[i].key = key
  THEN CHOOSE i \in 1..Len(map) : map[i].key = key
  ELSE 0

\* getProgress: progressMap[key] || null, as an optional record
getProgress(map, detailPath, season, episode) ==
  LET i == IndexOf(map, buildKey(detailPath, season, episode)) IN
    IF i = 0 THEN Undefined ELSE Some(map[i].value)

\* isWatched reporting true for every record
isWatchedAnyRecord(map, detailPath, season, episode) ==
  getProgress(map, detailPath, season, episode) # Undefined
isWatched(map, detailPath, season, episode) ==
  LET prog == getProgress(map, detailPath, season, episode) IN
    IF prog # Undefined THEN prog[1].percentage >= watchedFrom ELSE FALSE

\* { ...progressMap, [key]: value }: an existing key keeps its place
Put(map, key, value) ==
  LET i == IndexOf(map, key) IN
    IF i = 0 THEN Append(map, [key |-> key, value |-> value])
    ELSE [map EXCEPT ![i].value = value]
\* delete updated[key]
Delete(map, key) == SelectSeq(map, LAMBDA entry : entry.key # key)

\* What localStorage holds under the progress key
NoProgressStored == [kind |-> "missing", map |-> << >>]
ProgressGarbage == [kind |-> "garbage", map |-> << >>]
ProgressText(map) == [kind |-> "json", map |-> map]
\* Stored text that is JSON but no object: "null", "5", "[]"
ProgressOther(kind) == [kind |-> kind, map |-> << >>]
OtherJson == {"null", "number", "array"}

\* getAllProgress: {} for a missing value and for text JSON.parse rejects,
\* else whatever JSON.parse returns; here the entries Object.entries gives
getAllProgress(stored) == IF stored.kind = "json" THEN stored.map ELSE << >>

\* getAllProgress: the kind of value returned
getAllProgressType(stored) == IF stored.kind \in OtherJson THEN stored.kind ELSE "object"

\* progressMap[key] and Object.entries(progressMap) throw TypeError on null
ReadThrows(type) == type = "null"

\* The records of other titles stored before the page opened: n titles, one
\* episode each, stored oldest first, newest first or with equal
\* timestamps in between; all in progress, or every third watched and every
\* third not started.  Timestamps count from the moment the page opens.
BulkTimestamp(i, n, order) ==
  CASE order = "oldest-first" -> i - n - 1
    [] order = "newest-first" -> 0 - i
    [] OTHER -> 0 - (i % 4) - 1
BulkPercentage(i, mix) ==
  IF mix = "in-progress" THEN 50
  ELSE CASE i % 3 = 0 -> 95
         [] i % 3 = 1 -> 50
         [] OTHER -> 0
BulkMap(n, order, mix) ==
  [i \in 1..n |-> [key |-> buildKey(<<ToString(i + 2)>>, Some(1), Some(1)),
                   value |-> [percentage |-> BulkPercentage(i, mix),
                              timestamp |-> BulkTimestamp(i, n, order)]]]
BulkSizes == {0, MaxBulk - 1, MaxBulk}
BulkStores ==
  {NoProgressStored, ProgressGarbage}
  \cup {ProgressOther(kind) : kind \in OtherJson}
  \cup {ProgressText(BulkMap(n, order, mix)) :
          n \in BulkSizes, order \in {"oldest-first", "newest-first", "ties"},
          mix \in {"in-progress", "mixed"}}

NoProgressCall == [op |-> "none", detailPath |-> << >>, season |-> Undefined,
                   episode |-> Undefined, percentage |-> Undefined, n |-> 0,
                   threw |-> FALSE]

InitProgressIdle ==
  /\ progressMap = << >>
  /\ progressType = "object"
  /\ progressStored = NoProgressStored
  /\ wpc = "unmounted"
  /\ wpLast = NoProgressCall

WpUnchanged == UNCHANGED <<epVars, vpVars, eoVars, lwVars, restVars>>

\* A component calling useWatchProgress() renders first: progressMap is {}
WpMount ==
  /\ wpc = "unmounted"
  /\ wpc' = "mounted"
  /\ progressMap' = << >>
  /\ progressType' = "object"
  /\ UNCHANGED <<progressStored, wpLast, now>>
  /\ WpUnchanged

\* The mount effect: setProgressMap(getAllProgress())
WpLoad ==
  /\ wpc = "mounted"
  /\ wpc' = "loaded"
  /\ progressMap' = getAllProgress(progressStored)
  /\ progressType' = getAllProgressType(progressStored)
  /\ UNCHANGED <<progressStored, wpLast, now>>
  /\ WpUnchanged

\* saveAllProgress: setItem inside try / catch
saveAllProgress(data, failed) ==
  progressStored' = IF failed THEN progressStored ELSE ProgressText(data)

\* updateProgress(detailPath, data, season, episode) and the commit after it
updateProgress ==
  /\ wpc = "loaded"
  /\ wpLast.n < MaxProgressCalls
  /\ \E detailPath \in DetailPaths, ep \in Episodes \cup {<<Undefined, Undefined>>},
        percentage \in Percentages, failed \in BOOLEAN :
       LET key == buildKey(detailPath, ep[1], ep[2])
           i == IndexOf(progressMap, key)
           existing == IF i # 0 THEN progressMap[i].value
                       ELSE [percentage |-> 0, timestamp |-> now]
           merged == IF percentage = Undefined THEN existing
                     ELSE [existing EXCEPT !.percentage = percentage[1]]
           updated == Put(progressMap, key, [merged EXCEPT !.timestamp = now])
           call == [op |-> "updateProgress", detailPath |-> detailPath,
                    season |-> ep[1], episode |-> ep[2],
                    percentage |-> percentage, n |-> wpLast.n + 1, threw |-> FALSE]
       IN IF ReadThrows(progressType)
          THEN /\ wpLast' = [call EXCEPT !.threw = TRUE]
               /\ UNCHANGED <<progressMap, progressType, progressStored>>
          ELSE /\ progressMap' = updated
               /\ progressType' = "object"
               /\ saveAllProgress(updated, failed)
               /\ wpLast' = call
  /\ UNCHANGED <<wpc, now>>
  /\ WpUnchanged

\* clearProgress(detailPath, season, episode) and the commit after it
clearProgress ==
  /\ wpc = "loaded"
  /\ wpLast.n < MaxProgressCalls
  /\ \E detailPath \in DetailPaths, ep \in Episodes, failed \in BOOLEAN :
       LET updated == Delete(progressMap, buildKey(detailPath, ep[1], ep[2]))
       IN /\ progressMap' = updated
          /\ progressType' = "object"
          /\ saveAllProgress(updated, failed)
          /\ wpLast' = [op |-> "clearProgress", detailPath |-> detailPath,
                        season |-> ep[1], episode |-> ep[2],
                        percentage |-> Undefined, n |-> wpLast.n + 1, threw |-> FALSE]
  /\ UNCHANGED <<wpc, now>>
  /\ WpUnchanged

(***************************************************************************)
(* The embed-only VideoPlayer                                              *)
(***************************************************************************)
\* The iframe load timeout, in seconds
IframeTimeout == 15

\* Values of the embedSrc and playerKey props (Absent: undefined)
EmbedSources == {Absent, "embed-1", "embed-2"}
PlayerKeys == {Absent, "t-1-1", "t-1-2"}

\* No timer is pending; the timer setTimeout(..., 15000) leaves pending
NoTimer == [armed |-> FALSE, left |-> 0]
ArmedTimer == [armed |-> TRUE, left |-> IframeTimeout]

NoEo == [mounted |-> FALSE, key |-> Absent, playerKey |-> Absent, embedSrc |-> Absent,
         isLoading |-> FALSE, hasError |-> FALSE, iframeLoading |-> FALSE,
         timer |-> NoTimer, iframe |-> "none"]

\* The iframe the embed-only VideoPlayerInner renders: it has neither a
\* sandbox nor a referrerPolicy attribute
EmbedOnlyIframe == [sandboxed |-> FALSE, sandbox |-> {}, referrerPolicy |-> Absent]

\* VideoPlayer: playerKey || props.embedSrc || "player"
EmbedOnlyKey(pk, src) ==
  IF pk # Absent THEN pk ELSE IF src # Absent THEN src ELSE "player"

\* VideoPlayerInner right after its first render: useState initial values
EoFirstRender(pk, src, l) ==
  [mounted |-> TRUE, key |-> EmbedOnlyKey(pk, src), playerKey |-> pk, embedSrc |-> src,
   isLoading |-> l, hasError |-> FALSE, iframeLoading |-> TRUE,
   timer |-> NoTimer, iframe |-> "none"]

\* What the embed-only VideoPlayerInner renders
EoSurfaceOf(r) ==
  IF ~r.mounted THEN "nothing"
  ELSE IF r.isLoading THEN "loading"
  ELSE IF r.embedSrc = Absent THEN "unavailable"
  ELSE IF r.hasError THEN "error"
  ELSE "iframe"
EoSurface == EoSurfaceOf(eo)

\* The timeout effect never arming a timer
EoTimerNever(prev, n) == NoTimer
\* The timeout effect (dependencies iframeLoading, embedSrc) and its cleanup:
\* the timer the commit leaves pending
EoTimerAfter(prev, n) ==
  IF ~prev.mounted \/ prev.iframeLoading # n.iframeLoading \/ prev.embedSrc # n.embedSrc
  THEN IF n.iframeLoading /\ n.embedSrc # Absent THEN ArmedTimer ELSE NoTimer
  ELSE n.timer

\* Commit of a render of the embed-only VideoPlayerInner: the timeout effect
\* runs and the iframe element (key={embedSrc}) is kept, created or dropped
EoCommit(prev, n) ==
  \E f \in IframeFates :
    eo' = [n EXCEPT
             !.timer = EoTimerAfter(prev, n),
             !.iframe = IF EoSurfaceOf(n) # "iframe" THEN "none"
                        ELSE IF EoSurfaceOf(prev) = "iframe" /\ prev.embedSrc = n.embedSrc
                        THEN n.iframe
                        ELSE f]

EoUnchanged == UNCHANGED <<epVars, vpVars, lwVars, wpVars, now, restVars>>

\* <VideoPlayerInner key={key} ... /> mounts
EoMount ==
  /\ ~eo.mounted
  /\ \E pk \in PlayerKeys, src \in EmbedSources, l \in BOOLEAN :
       EoCommit(NoEo, EoFirstRender(pk, src, l))
  /\ EoUnchanged

\* The page leaves: cleanup of the effects clears the timer
EoUnmount ==
  /\ eo.mounted
  /\ eo' = NoEo
  /\ EoUnchanged

\* The parent renders VideoPlayer with other props: a changed key remounts
\* VideoPlayerInner, an unchanged one re-renders it
EoProps ==
  /\ eo.mounted
  /\ \E pk \in PlayerKeys, src \in EmbedSources, l \in BOOLEAN :
       /\ <<pk, src, l>> # <<eo.playerKey, eo.embedSrc, eo.isLoading>>
       /\ IF EmbedOnlyKey(pk, src) # eo.key
          THEN EoCommit(NoEo, EoFirstRender(pk, src, l))
          ELSE EoCommit(eo, [eo EXCEPT !.playerKey = pk, !.embedSrc = src, !.isLoading = l])
  /\ EoUnchanged

\* The iframe fires load
handleIframeLoad ==
  /\ eo.iframe = "loads"
  /\ EoCommit(eo, [eo EXCEPT !.iframeLoading = FALSE, !.timer = NoTimer,
                              !.iframe = "loaded"])
  /\ EoUnchanged

\* The iframe fires error
handleIframeError ==
  /\ eo.iframe = "fails"
  /\ EoCommit(eo, [eo EXCEPT !.iframeLoading = FALSE, !.hasError = TRUE,
                              !.timer = NoTimer])
  /\ EoUnchanged

\* Time passes on an armed timer
EoTick ==
  /\ eo.timer.armed /\ eo.timer.left > 0
  /\ eo' = [eo EXCEPT !.timer.left = @ - 1]
  /\ EoUnchanged

\* The timer's callback runs
EoTimeout ==
  /\ eo.timer.armed /\ eo.timer.left = 0
  /\ EoCommit(eo, [eo EXCEPT !.hasError = TRUE, !.iframeLoading = FALSE,
                              !.timer = NoTimer])
  /\ EoUnchanged

\* A click on "Try Again" of the error view
handleRetry ==
  /\ EoSurface = "error"
  /\ EoCommit(eo, [eo EXCEPT !.hasError = FALSE, !.iframeLoading = TRUE])
  /\ EoUnchanged

(***************************************************************************)
(* Player URLs as text (src/lib/utils.ts, EpisodePlayer.tsx)               *)
(*                                                                         *)
(* A string is the sequence of its characters; a run of characters that    *)
(* nothing here splits is one element.  The text of a URL is kept in the   *)
(* parts the URL parser cuts it into: scheme and host, the path segments   *)
(* between "/", the characters after "?" and the characters after "#".     *)
(* A text whose abs is FALSE has no scheme: new URL(text) throws.          *)
(***************************************************************************)
\* The largest season / episode number built into a URL
MaxNumber == 12

Text(abs, scheme, host, path, search, hash) ==
  [abs |-> abs, scheme |-> scheme, host |-> host, path |-> path,
   search |-> search, hash |-> hash]

NoText == Text(FALSE, "", "", << >>, << >>, << >>)

\* String(n) of a non-negative integer: its decimal digits
DigitChars == <<"0", "1", "2", "3", "4", "5", "6", "7", "8", "9">>
RECURSIVE Digits(_)
Digits(n) ==
  IF n < 10 THEN <<DigitChars[n + 1]>>
  ELSE Digits(n \div 10) \o <<DigitChars[(n % 10) + 1]>>

IsDigit(c) == \E d \in 1..10 : DigitChars[d] = c
DigitValue(c) == (CHOOSE d \in 1..10 : DigitChars[d] = c) - 1

\* Number(s) of a string: "" is 0, decimal digits are their value, else NaN
RECURSIVE DigitsValue(_, _)
DigitsValue(chars, acc) ==
  IF chars = << >> THEN acc
  ELSE DigitsValue(Tail(chars), acc * 10 + DigitValue(Head(chars)))

NumberOf(chars) ==
  IF \A i \in 1..Len(chars) : IsDigit(chars[i]) THEN DigitsValue(chars, 0) ELSE NaN

\* application/x-www-form-urlencoded: the serializer's byte encoding and
\* the parser's decoding
FormEncode(c) ==
  CASE c = "&" -> "%26"
    [] c = "=" -> "%3D"
    [] c = "/" -> "%2F"
    [] c = "#" -> "%23"
    [] c = "+" -> "%2B"
    [] c = " " -> "+"
    [] OTHER -> c

FormDecode(c) ==
  CASE c = "%26" -> "&"
    [] c = "%3D" -> "="
    [] c = "%2F" -> "/"
    [] c = "%23" -> "#"
    [] c = "%2B" -> "+"
    [] c = "+" -> " "
    [] OTHER -> c

EncodeAll(chars) == [i \in 1..Len(chars) |-> FormEncode(chars[i])]
DecodeAll(chars) == [i \in 1..Len(chars) |-> FormDecode(chars[i])]

\* chars.split(c)
RECURSIVE SplitOn(_, _)
SplitOn(chars, c) ==
  LET i == FirstIndex(chars, c, 1) IN
    IF i = 0 THEN <<chars>>
    ELSE <<SubSeq(chars, 1, i - 1)>> \o SplitOn(SubSeq(chars, i + 1, Len(chars)), c)

Param(name, value) == [name |-> name, value |-> value]

\* The URLSearchParams of a query string: pieces between "&", each cut at
\* its first "=", both sides decoded
ParseQuery(search) ==
  LET pieces == SelectSeq(SplitOn(search, "&"), LAMBDA piece : piece # << >>)
      pair(piece) ==
        LET i == FirstIndex(piece, "=", 1) IN
          IF i = 0 THEN Param(DecodeAll(piece), << >>)
          ELSE Param(DecodeAll(SubSeq(piece, 1, i - 1)),
                     DecodeAll(SubSeq(piece, i + 1, Len(piece))))
  IN [k \in 1..Len(pieces) |-> pair(pieces[k])]

\* URLSearchParams.prototype.toString
RECURSIVE SerializeQuery(_)
SerializeQuery(params) ==
  IF params = << >> THEN << >>
  ELSE LET first == EncodeAll(Head(params).name) \o <<"=">> \o EncodeAll(Head(params).value)
       IN IF Len(params) = 1 THEN first
          ELSE first \o <<"&">> \o SerializeQuery(Tail(params))

ParamNames(params) == [k \in 1..Len(params) |-> params[k].name]

\* searchParams.get(name): the first value, null when absent
NoValue == [found |-> FALSE, value |-> << >>]
SearchParamsGet(params, name) ==
  LET i == FirstIndex(ParamNames(params), name, 1) IN
    IF i = 0 THEN NoValue ELSE [found |-> TRUE, value |-> params[i].value]

\* searchParams.append(name, value)
SearchParamsAppend(params, name, value) == Append(params, Param(name, value))

\* searchParams.set(name, value): the first pair of that name takes the
\* value, the others of that name go; appended when there is none
SearchParamsSet(params, name, value) ==
  LET i == FirstIndex(ParamNames(params), name, 1) IN
    IF i = 0 THEN Append(params, Param(name, value))
    ELSE LET kept == SelectSeq([k \in 1..Len(params) |-> [at |-> k, p |-> params[k]]],
                               LAMBDA x : x.at = i \/ x.p.name # name)
         IN [k \in 1..Len(kept) |-> IF kept[k].at = i THEN Param(name, value) ELSE kept[k].p]

\* Number(url.searchParams.get(name)), as the title page reads its own URL
NumberParam(params, name) ==
  LET got == SearchParamsGet(params, name) IN
    IF got.found THEN NumberOf(got.value) ELSE 0

\* `${text}${more}` for more = "/" segment: the characters land in the last
\* part the text has
AppendFile(text, segment) ==
  IF text.hash # << >> THEN [text EXCEPT !.hash = @ \o <<"/", segment>>]
  ELSE IF text.search # << >> THEN [text EXCEPT !.search = @ \o <<"/", segment>>]
  ELSE [text EXCEPT !.path = Append(@, segment)]

\* new URL(text): throws on a text without scheme
NewURL(text) == [threw |-> ~text.abs, url |-> IF text.abs THEN text ELSE NoText]

\* url.origin: "null" for a scheme that is not http(s)
SpecialSchemes == {"http", "https"}
HasOrigin(u) == u.scheme \in SpecialSchemes

\* A path segment with a "." in it
HasDot(segment) == segment \in {"player.php", "embed.html", "v1.2"}

\* getPlayerBaseUrlFromAnyPlayerUrl(playerUrl)
PlayerBaseOfText(playerUrl) ==
  LET parsed == NewURL(playerUrl) IN
    IF parsed.threw THEN playerUrl
    ELSE LET parts == SelectSeq(parsed.url.path, LAMBDA segment : segment # "")
             folder == IF Len(parts) > 0 /\ HasDot(parts[Len(parts)])
                       THEN SubSeq(parts, 1, Len(parts) - 1) ELSE parts
         IN IF HasOrigin(parsed.url)
            THEN Text(TRUE, parsed.url.scheme, parsed.url.host, folder, << >>, << >>)
            ELSE Text(FALSE, "", "", <<"null">> \o folder, << >>, << >>)

\* buildPlayerUrl({base, id, detailPath, season, episode}): the string
\* returned, or the TypeError of new URL
Thrown == [threw |-> TRUE, text |-> NoText]
Returned(text) == [threw |-> FALSE, text |-> text]

SetNumber(params, name, n) ==
  IF n = Undefined THEN params ELSE SearchParamsSet(params, name, Digits(n[1]))

BuildPlayerUrlText(base, id, detailPath, season, episode) ==
  LET parsed == NewURL(AppendFile(base, "player.php")) IN
    IF parsed.threw THEN Thrown
    ELSE LET p0 == ParseQuery(parsed.url.search)
             p1 == SearchParamsSet(p0, <<"id">>, id)
             p2 == SearchParamsSet(p1, <<"detailPath">>, detailPath)
             p3 == SetNumber(p2, <<"season">>, season)
             p4 == SetNumber(p3, <<"episode">>, episode)
         IN Returned([parsed.url EXCEPT !.search = SerializeQuery(p4)])

\* PLAYER_BASE_URL / getPlayerBaseUrl(): the configured player endpoint
PLAYER_BASE_URL == Text(TRUE, "https", "zeldvorik.ru", <<"apiv3">>, << >>, << >>)

\* Player URL strings a catalog or a title may carry: none, a player URL,
\* a reference without scheme, and a URL of a scheme that has no origin
NoPlayerUrl == NoText
GoodPlayerUrl == Text(TRUE, "https", "cdn", <<"embed", "player.php">>, <<"id", "=", "7">>, << >>)
RelativePlayerUrl == Text(FALSE, "", "", <<"", "embed", "player.php">>, <<"id", "=", "7">>, << >>)
OpaquePlayerUrl == Text(TRUE, "app", "player", <<"embed.html">>, << >>, << >>)
PlayerUrlTexts == {NoPlayerUrl, GoodPlayerUrl, RelativePlayerUrl, OpaquePlayerUrl}

\* Bases buildPlayerUrl may be called with
BuildBases ==
  { PLAYER_BASE_URL,
    Text(TRUE, "https", "cdn", <<"embed">>, <<"season", "=", "9", "&", "season", "=", "8">>, << >>),
    Text(TRUE, "https", "cdn", <<"embed">>, << >>, <<"top">>),
    RelativePlayerUrl }

\* Title ids and detail paths
ContentIds == {<<"7">>, <<"7", "&", "season", "=", "9">>}
contentId == <<"7">>
urlDetailPath == <<"a", "/", "b">>
PlayerNumbers == {1, MaxNumber - 1}

\* The page of a title whose catalog is one season of two episodes
UrlEpisodes == {1, 2}
UrlSeason == 1

\* playerBaseUrl: the base of the first episode URL of the catalog, else of
\* the title's URL, else null
NoBase == [isNull |-> TRUE, text |-> NoText]
Base(text) == [isNull |-> FALSE, text |-> text]
playerBaseUrlText(page) ==
  LET withUrl == SelectSeq(page.episodes, LAMBDA playerUrl : playerUrl # NoPlayerUrl) IN
    IF Len(withUrl) > 0 THEN Base(PlayerBaseOfText(withUrl[1]))
    ELSE IF page.title # NoPlayerUrl THEN Base(PlayerBaseOfText(page.title))
    ELSE NoBase

\* computePlayerUrl(seasonNum, episodeNum): the URL, undefined (NoPlayerUrl),
\* or the exception of buildPlayerUrl
computePlayerUrlText(page, seasonNum, episodeNum) ==
  LET own == IF seasonNum = UrlSeason /\ episodeNum \in 1..Len(page.episodes)
             THEN page.episodes[episodeNum] ELSE NoPlayerUrl
      base == playerBaseUrlText(page)
  IN IF own # NoPlayerUrl THEN Returned(own)
     ELSE IF ~base.isNull
     THEN BuildPlayerUrlText(base.text, contentId, urlDetailPath, Some(seasonNum), Some(episodeNum))
     ELSE Returned(page.title)

NoBuilt == [called |-> FALSE, base |-> NoText, id |-> << >>, season |-> Undefined,
            episode |-> Undefined, out |-> Thrown]

InitUrlIdle ==
  /\ up = [episodes |-> <<NoPlayerUrl, NoPlayerUrl>>, title |-> NoPlayerUrl, episode |-> 1]
  /\ ul = [pc |-> "unmounted", isLoadingStream |-> TRUE, playerUrl |-> NoPlayerUrl]
  /\ built = NoBuilt

UrlUnchanged == UNCHANGED <<epVars, vpVars, eoVars, lwVars, wpVars, now, sharedVars, dp>>

\* EpisodePlayer mounts: useState(true), streamState.playerUrl is the
\* title's URL, and the load effect is about to run
UrlPageMount ==
  /\ ul.pc = "unmounted"
  /\ ul' = [pc |-> "effect", isLoadingStream |-> TRUE, playerUrl |-> up.title]
  /\ UNCHANGED <<up, built>>
  /\ UrlUnchanged

\* loadStreamSources up to its await: setIsLoadingStream(true), then
\* computePlayerUrl, outside the try block
UrlLoadStart ==
  /\ ul.pc = "effect"
  /\ LET fallbackUrl == computePlayerUrlText(up, UrlSeason, up.episode) IN
       ul' = IF fallbackUrl.threw
             THEN [ul EXCEPT !.pc = "rejected", !.isLoadingStream = TRUE]
             ELSE [pc |-> "awaiting", isLoadingStream |-> TRUE, playerUrl |-> ul.playerUrl]
  /\ UNCHANGED <<up, built>>
  /\ UrlUnchanged

\* fetchStreamSources settles: setStreamState({..., playerUrl: fallbackUrl})
\* and, in finally, setIsLoadingStream(false)
UrlLoadSettle ==
  /\ ul.pc = "awaiting"
  /\ ul' = [pc |-> "settled", isLoadingStream |-> FALSE,
            playerUrl |-> computePlayerUrlText(up, UrlSeason, up.episode).text]
  /\ UNCHANGED <<up, built>>
  /\ UrlUnchanged

\* The user selects the other episode once the page is at rest: the load
\* effect runs again
UrlSelect ==
  /\ ul.pc \in {"settled", "rejected"}
  /\ \E e \in UrlEpisodes :
       /\ e # up.episode
       /\ up' = [up EXCEPT !.episode = e]
  /\ ul' = [ul EXCEPT !.pc = "effect"]
  /\ UNCHANGED built
  /\ UrlUnchanged

\* buildPlayerUrl called with any base, id, season and episode
BuildCall ==
  /\ \E base \in BuildBases, id \in ContentIds, season \in PlayerNumbers, episode \in PlayerNumbers :
       built' = [called |-> TRUE, base |-> base, id |-> id, season |-> Some(season),
                 episode |-> Some(episode),
                 out |-> BuildPlayerUrlText(base, id, urlDetailPath, Some(season), Some(episode))]
  /\ UNCHANGED <<up, ul>>
  /\ UrlUnchanged

(***************************************************************************)
(* useWatchProgress instances sharing the store                            *)
(***************************************************************************)
\* Calls made through the instances, in all
MaxSharedCalls == 3

Instances == {"A", "B"}

\* An instance: the progressMap of its last render (what updateProgress and
\* clearProgress close over) and its progressMap state
NoInstance == [pc |-> "unmounted", rendered |-> << >>, state |-> << >>]

NoSharedCall == [op |-> "none", by |-> "none", key |-> << >>, before |-> << >>, n |-> 0]

\* What the store holds when the first instance mounts
SharedStores ==
  {NoProgressStored,
   ProgressText(<<[key |-> buildKey(<<"b">>, Some(1), Some(1)),
                   value |-> [percentage |-> 50, timestamp |-> 0]]>>)}

InitSharedIdle ==
  /\ wps = [i \in Instances |-> NoInstance]
  /\ wpsLast = NoSharedCall

SharedUnchanged ==
  UNCHANGED <<epVars, vpVars, eoVars, lwVars, now, urlVars, dp,
              progressMap, progressType, wpc, wpLast>>

\* First render of an instance: useState({})
SharedMount ==
  /\ \E i \in Instances :
       /\ wps[i].pc = "unmounted"
       /\ wps' = [wps EXCEPT ![i] = [pc |-> "mounted", rendered |-> << >>, state |-> << >>]]
  /\ UNCHANGED <<progressStored, wpsLast>>
  /\ SharedUnchanged

\* The mount effect of an instance: setProgressMap(getAllProgress())
SharedLoad ==
  /\ \E i \in Instances :
       /\ wps[i].pc = "mounted"
       /\ wps' = [wps EXCEPT ![i].pc = "loaded", ![i].state = getAllProgress(progressStored)]
  /\ UNCHANGED <<progressStored, wpsLast>>
  /\ SharedUnchanged

\* An instance renders: its callbacks are made anew over the current state
SharedRender ==
  /\ \E i \in Instances :
       /\ wps[i].pc = "loaded"
       /\ wps[i].rendered # wps[i].state
       /\ wps' = [wps EXCEPT ![i].rendered = wps[i].state]
  /\ UNCHANGED <<progressStored, wpsLast>>
  /\ SharedUnchanged

\* What a call builds on: the progressMap its callback closed over
ClosedOverMap(instance, stored) == instance.rendered

\* updateProgress through an instance
sharedUpdateProgress ==
  /\ wpsLast.n < MaxSharedCalls
  /\ \E i \in Instances, detailPath \in DetailPaths, ep \in Episodes,
        percentage \in {Some(50), Some(90)} :
       /\ wps[i].pc = "loaded"
       /\ LET key == buildKey(detailPath, ep[1], ep[2])
              base == ClosedOverMap(wps[i], progressStored)
              k == IndexOf(base, key)
              existing == IF k # 0 THEN base[k].value
                          ELSE [percentage |-> 0, timestamp |-> now]
              updated == Put(base, key, [existing EXCEPT !.percentage = percentage[1],
                                                           !.timestamp = now])
          IN /\ wps' = [wps EXCEPT ![i].state = updated]
             /\ saveAllProgress(updated, FALSE)
             /\ wpsLast' = [op |-> "updateProgress", by |-> i, key |-> key,
                            before |-> getAllProgress(progressStored), n |-> wpsLast.n + 1]
  /\ SharedUnchanged

\* clearProgress through an instance
sharedClearProgress ==
  /\ wpsLast.n < MaxSharedCalls
  /\ \E i \in Instances, detailPath \in DetailPaths, ep \in Episodes :
       /\ wps[i].pc = "loaded"
       /\ LET key == buildKey(detailPath, ep[1], ep[2])
              updated == Delete(ClosedOverMap(wps[i], progressStored), key)
          IN /\ wps' = [wps EXCEPT ![i].state = updated]
             /\ saveAllProgress(updated, FALSE)
             /\ wpsLast' = [op |-> "clearProgress", by |-> i, key |-> key,
                            before |-> getAllProgress(progressStored), n |-> wpsLast.n + 1]
  /\ SharedUnchanged

(***************************************************************************)
(* DirectVideoPlayer (src/components/content/VideoPlayer.tsx)              *)
(***************************************************************************)
Source(u, resolution, quality) == [url |-> u, resolution |-> resolution, quality |-> quality]
NoSource == Source("", Undefined, Undefined)

\* Lists of downloads the stream API may return for an episode
SourceLists ==
  { << Source("r480", Some(480), Undefined), Source("r1080", Some(1080), Undefined),
       Source("r720", Some(720), Undefined) >>,
    << Source("q720", Undefined, Some(720)), Source("r480", Some(480), Some(1080)) >>,
    << Source("a720", Some(720), Undefined), Source("b720", Some(720), Undefined) >>,
    << Source("only", Undefined, Undefined) >>,
    << Source("q1080", Undefined, Some(1080)), Source("q480", Undefined, Some(480)) >> }

\* a.resolution || a.quality || 0
Rank(source) ==
  IF source.resolution # Undefined /\ source.resolution[1] # 0 THEN source.resolution[1]
  ELSE IF source.quality # Undefined /\ source.quality[1] # 0 THEN source.quality[1]
  ELSE 0

\* [...downloads].sort((a, b) => bRes - aRes): a stable sort, highest first
RECURSIVE InsertByRank(_, _)
InsertByRank(sorted, source) ==
  IF sorted = << >> THEN <<source>>
  ELSE IF Rank(Head(sorted)) >= Rank(source)
  THEN <<Head(sorted)>> \o InsertByRank(Tail(sorted), source)
  ELSE <<source>> \o sorted

RECURSIVE SortByRank(_)
SortByRank(downloads) ==
  IF downloads = << >> THEN << >>
  ELSE InsertByRank(SortByRank(SubSeq(downloads, 1, Len(downloads) - 1)),
                    downloads[Len(downloads)])

\* getBestSource(downloads): null (NoSource) for an empty list
getBestSource(downloads) ==
  IF Len(downloads) = 0 THEN NoSource ELSE SortByRank(downloads)[1]

NoDirect == [mounted |-> FALSE, sources |-> << >>, currentSource |-> NoSource,
             seen |-> [first |-> FALSE, sources |-> << >>, url |-> ""],
             picked |-> NoSource, initial |-> FALSE, videoError |-> FALSE,
             currentCaption |-> Absent]

InitDirectIdle == dp = NoDirect

DirectUnchanged == UNCHANGED <<epVars, vpVars, eoVars, lwVars, wpVars, now, urlVars, sharedVars>>

\* First render: useState(() => getBestSource(sources))
DirectMount ==
  /\ ~dp.mounted
  /\ \E sources \in SourceLists :
       dp' = [mounted |-> TRUE, sources |-> sources, currentSource |-> getBestSource(sources),
              seen |-> [first |-> TRUE, sources |-> << >>, url |-> ""],
              picked |-> NoSource, initial |-> TRUE, videoError |-> FALSE,
              currentCaption |-> Absent]
  /\ DirectUnchanged

DirectUnmount ==
  /\ dp.mounted
  /\ dp' = NoDirect
  /\ DirectUnchanged

\* A dependency of the source effect ([sources, currentSource?.url]) changed
DirectDirty ==
  /\ dp.mounted
  /\ dp.seen.first \/ dp.seen.sources # dp.sources \/ dp.seen.url # dp.currentSource.url

\* The source effect: the best source replaces a current one of another URL
sourceEffect(sources, currentSource) ==
  LET best == getBestSource(sources) IN
    IF best # NoSource /\ best.url # currentSource.url THEN best ELSE currentSource

\* Commit of a render: the source effect runs when a dependency changed
DirectCommit ==
  /\ DirectDirty
  /\ dp' = [dp EXCEPT !.currentSource = sourceEffect(dp.sources, dp.currentSource),
                      !.videoError = IF sourceEffect(dp.sources, dp.currentSource) # dp.currentSource
                                     THEN FALSE ELSE dp.videoError,
                      !.seen = [first |-> FALSE, sources |-> dp.sources,
                                url |-> dp.currentSource.url],
                      !.initial = FALSE]
  /\ DirectUnchanged

\* The user picks a source in QualitySelector
handleSourceChange ==
  /\ dp.mounted /\ ~DirectDirty
  /\ \E i \in 1..Len(dp.sources) :
       /\ dp.sources[i] # dp.currentSource
       /\ dp' = [dp EXCEPT !.currentSource = dp.sources[i], !.picked = dp.sources[i],
                           !.videoError = FALSE]
  /\ DirectUnchanged

\* Captions of the episode (Absent: "Off")
Captions == {Absent, "en"}

\* The user picks a caption in CaptionSelector
handleCaptionChange ==
  /\ dp.mounted /\ ~DirectDirty
  /\ \E caption \in Captions :
       /\ caption # dp.currentCaption
       /\ dp' = [dp EXCEPT !.currentCaption = caption]
  /\ DirectUnchanged

\* The video element fires error: setVideoError(true), then onError()
handleVideoError ==
  /\ dp.mounted /\ ~DirectDirty
  /\ ~dp.videoError
  /\ dp' = [dp EXCEPT !.videoError = TRUE]
  /\ DirectUnchanged

\* The parent passes another list of sources
DirectSources ==
  /\ dp.mounted /\ ~DirectDirty
  /\ \E sources \in SourceLists :
       /\ sources # dp.sources
       /\ dp' = [dp EXCEPT !.sources = sources, !.picked = NoSource]
  /\ DirectUnchanged

(***************************************************************************)
(* Specifications                                                          *)
(***************************************************************************)
\* No embed-only player is mounted
InitEmbedOnlyPlayer == eo = NoEo

\* The title page is opened: nothing of it is mounted yet
Init ==
  /\ InitEpisodePlayer
  /\ InitVideoPlayer
  /\ InitEmbedOnlyPlayer
  /\ InitLastWatchedIdle
  /\ InitProgressIdle
  /\ InitUrlIdle
  /\ InitSharedIdle
  /\ InitDirectIdle
  /\ now = 0

\* Every stream fetch has settled
Quiet == inflight = << >>

\* Navigation scenario: any URL, any stored record; the upstream has no
\* direct sources and the network is faster than the user, so an event
\* finds no stream fetch outstanding
Next ==
  \/ Mount
  \/ Render
  \/ (Quiet /\ SelectEpisode)
  \/ (Quiet /\ SelectSeason)
  \/ (Quiet /\ handleContinueWatching)
  \/ (Quiet /\ ExternalUrlChange)
  \/ (Quiet /\ NavCommit)
  \/ NavDiscard
  \/ (FetchSettle /\ Len(streamState'.downloads) = 0)

Spec == Init /\ [][Next]_vars

\* Race scenario: the page is opened without season / episode parameters and
\* the URL changes only by the component's own router.replace calls; stream
\* fetches stay outstanding while the user goes on selecting
InitRace ==
  /\ Init
  /\ url = [season |-> Absent, episode |-> Absent, ref |-> "home"]

NextRace ==
  \/ Mount
  \/ Render
  \/ SelectEpisode
  \/ SelectSeason
  \/ handleContinueWatching
  \/ NavCommit
  \/ NavDiscard
  \/ FetchSettle

SpecRace == InitRace /\ [][NextRace]_vars

\* Seeding scenario: the race scenario on one title, nothing stored at first,
\* with the stored record changing under the mounted page
NextSeed ==
  \/ NextRace
  \/ LastWatchedStorageEvent

\* Player scenario: one title opened at its first episode, whose stream
\* request settles, next to a VideoPlayerInner going through its life
InitPlayer ==
  /\ InitRace
  /\ Len(seasons[1].episodes) > 1
  /\ lastWatched = NoRecord

SpecSeed == InitPlayer /\ [][NextSeed]_vars

NextPlayer ==
  \/ Mount
  \/ Render
  \/ NavCommit
  \/ FetchSettle
  \/ PlayerMount
  \/ PlayerUnmount
  \/ VRender
  \/ SwrSettle
  \/ SwrRetry
  \/ ParentLoading
  \/ handleDirectError
  \/ ClickDirect
  \/ ClickEmbed
  \/ handleLoad
  \/ handleError
  \/ SelectEpisode

SpecPlayer == InitPlayer /\ [][NextPlayer]_vars

\* Embed-only scenario: the embed-only VideoPlayer going through its life
\* under every sequence of props, iframe events and timer expiries
InitEmbedOnly == InitPlayer

NextEmbedOnly ==
  \/ EoMount
  \/ EoUnmount
  \/ EoProps
  \/ handleIframeLoad
  \/ handleIframeError
  \/ EoTick
  \/ EoTimeout
  \/ handleRetry

SpecEmbedOnly == InitEmbedOnly /\ [][NextEmbedOnly]_vars

\* The title page with nothing of it mounted, on one title
ClosedPage ==
  /\ InitEpisodePlayer
  /\ InitVideoPlayer
  /\ InitEmbedOnlyPlayer
  /\ InitUrlIdle
  /\ InitSharedIdle
  /\ InitDirectIdle
  /\ url = [season |-> Absent, episode |-> Absent, ref |-> "home"]
  /\ Len(seasons[1].episodes) > 1
  /\ lastWatched = NoRecord

\* Store scenario: useLastWatched instances of two titles over a store that
\* may hold anything when the page opens, this tab and others writing it
InitLastWatched ==
  /\ ClosedPage
  /\ InitProgressIdle
  /\ lwStore \in [TitleKeys -> {Missing, Garbage}]
  /\ lwSubs = [h \in Hooks |-> NoSub]
  /\ lwNotified = {}
  /\ lwCall = NoCall
  /\ now = 0

NextLastWatched ==
  \/ LwHookMount
  \/ LwHookUnmount
  \/ hookUpdateLastWatched
  \/ setLastWatched
  \/ clearLastWatched
  \/ LwOtherTabWrite
  \/ LwOtherTabClear
  \/ Tick

SpecLastWatched == InitLastWatched /\ [][NextLastWatched]_vars

\* Progress scenario: useWatchProgress mounted over a store holding the
\* records of up to MaxBulk other titles, then updated and cleared
InitProgress ==
  /\ ClosedPage
  /\ InitLastWatchedIdle
  /\ progressMap = << >>
  /\ progressType = "object"
  /\ progressStored \in BulkStores
  /\ wpc = "unmounted"
  /\ wpLast = NoProgressCall
  /\ now = 0

NextProgress ==
  \/ WpMount
  \/ WpLoad
  \/ updateProgress
  \/ clearProgress
  \/ Tick

SpecProgress == InitProgress /\ [][NextProgress]_vars

\* Baseline of the scenarios that follow: the title page closed, the stores
\* untouched
ClosedApp ==
  /\ InitEpisodePlayer
  /\ InitVideoPlayer
  /\ InitEmbedOnlyPlayer
  /\ InitLastWatchedIdle
  /\ InitProgressIdle
  /\ url = [season |-> Absent, episode |-> Absent, ref |-> "home"]
  /\ Len(seasons[1].episodes) > 1
  /\ lastWatched = NoRecord
  /\ now = 0

\* Baseline with no player URL work going on
ClosedAppNoUrl ==
  /\ ClosedApp
  /\ InitUrlIdle

\* Shared-store scenario: two useWatchProgress instances (two components, or
\* two tabs) over one store, each called up to MaxSharedCalls times in all,
\* also more than once between two renders
InitShared ==
  /\ ClosedAppNoUrl
  /\ InitDirectIdle
  /\ progressStored \in SharedStores
  /\ wps = [i \in Instances |-> NoInstance]
  /\ wpsLast = NoSharedCall

NextShared ==
  \/ SharedMount
  \/ SharedLoad
  \/ SharedRender
  \/ sharedUpdateProgress
  \/ sharedClearProgress

SpecShared == InitShared /\ [][NextShared]_vars

\* Direct-player scenario: DirectVideoPlayer over every modelled list of
\* sources, the user picking sources, the parent passing other lists
InitDirect ==
  /\ ClosedAppNoUrl
  /\ InitSharedIdle
  /\ dp = NoDirect

NextDirect ==
  \/ DirectMount
  \/ DirectUnmount
  \/ DirectCommit
  \/ handleSourceChange
  \/ handleVideoError
  \/ handleCaptionChange
  \/ DirectSources

SpecDirect == InitDirect /\ [][NextDirect]_vars

\* URL scenario: a title page whose episodes and title carry any of the
\* player URL strings, loading its stream sources, next to direct calls of
\* buildPlayerUrl
InitUrl ==
  /\ ClosedApp
  /\ InitSharedIdle
  /\ InitDirectIdle
  /\ up \in [episodes : [1..2 -> PlayerUrlTexts], title : PlayerUrlTexts, episode : UrlEpisodes]
  /\ ul = [pc |-> "unmounted", isLoadingStream |-> TRUE, playerUrl |-> NoPlayerUrl]
  /\ built = NoBuilt

NextUrl ==
  \/ UrlPageMount
  \/ UrlLoadStart
  \/ UrlLoadSettle
  \/ UrlSelect
  \/ BuildCall

SpecUrl == InitUrl /\ [][NextUrl]_vars

(***************************************************************************)
(* Properties                                                              *)
(***************************************************************************)
\* The pair names an episode of the catalog
InCatalog(p) ==
  \E i \in 1..Len(seasons) :
    /\ seasons[i].seasonNumber = p.season
    /\ \E k \in 1..Len(seasons[i].episodes) :
         seasons[i].episodes[k].episodeNumber = p.episode

\* The state right after mount, before the first commit's effects
JustMounted == pc = "mounted" /\ seen.first

UrlCarriesPair == url.season # Absent /\ url.episode # Absent
UrlPair == Pair(JsNumber(url.season), JsNumber(url.episode))

\* The initial Selection the priority chain URL > LastWatched > first asks for
ExpectedInitial ==
  IF UrlCarriesPair /\ InCatalog(UrlPair) THEN UrlPair
  ELSE IF lastWatched # NoRecord /\ InCatalog(lastWatched) THEN lastWatched
  ELSE Pair(seasons[1].seasonNumber, seasons[1].episodes[1].episodeNumber)

\* C1: at mount, for a catalog whose first season has an episode, the initial
\* Selection is the URL's pair when the URL carries season and episode and the
\* pair exists in the catalog, else the stored LastWatched pair when it exists
\* in the catalog, else the first episode of the first season.
C1_InitialSelection ==
  (JustMounted /\ Len(seasons[1].episodes) > 0) => sel = ExpectedInitial

\* C2: every step that leaves the component mounted leaves a Selection that
\* names an episode of the catalog, and every LastWatched record a step writes
\* names an episode of the catalog.
C2_SelectionValid ==
  [][pc' = "mounted" =>
       /\ InCatalog(sel')
       /\ (lastWatched' # lastWatched => InCatalog(lastWatched'))]_vars

\* The stream state is the one a request for p produces
StreamBelongsTo(p) ==
  /\ streamState.playerUrl = computePlayerUrl(p.season, p.episode)
  /\ \A i \in 1..Len(streamState.downloads) : streamState.downloads[i].for = p
  /\ \A i \in 1..Len(streamState.captions) : streamState.captions[i].for = p

\* C3: whenever the component is committed and not loading, the stream state
\* (downloads, captions, embed URL) belongs to the current Selection, in
\* whatever order outstanding stream fetches resolve.
C3_NoStaleStream ==
  (pc = "mounted" /\ ~Dirty /\ ~isLoadingStream) => StreamBelongsTo(sel)

\* One player instance goes on across the step
SameInstance == vpc = "mounted" /\ vpc' = "mounted" /\ vkey' = vkey

\* C4: for one player instance, a playback error in direct mode with an embed
\* URL leaves the player in sandboxed-embed; once direct is flagged as failed
\* it stays flagged and the direct surface is never rendered again, so the
\* error-driven switch happens at most once; and the mode goes from
\* sandboxed-embed to direct only by a user action taken while direct sources
\* exist and have not failed.
C4_DirectFailureIsFinal ==
  [][SameInstance =>
       /\ (directFailed => directFailed' /\ Surface' # "direct")
       /\ ((~VDirty' /\ directFailed' /\ hasEmbed') => mode' = "embed-sandboxed")
       /\ ((mode = "embed-sandboxed" /\ mode' = "direct") =>
             /\ vseen' = vseen
             /\ touched'
             /\ hasDirectSources /\ ~directFailed)]_vars

\* C4 witness: a player whose direct surface failed now shows the embed
C4_Witness ==
  /\ VIdle /\ directFailed /\ hasEmbed /\ hasDirectSources
  /\ Surface = "embed"

\* The query parameters a pending router.replace carries for season / episode
WrittenPair(w) == [season |-> w.season, episode |-> w.episode]
Mirror(s) == [season |-> JsString(s.season), episode |-> JsString(s.episode)]

\* C5: the state-to-URL effect never writes a Selection other than the one
\* the commit leaves: in particular, in the commit that adopts an externally
\* changed URL it does not write the previous Selection back (the write that
\* would make the two effects re-trigger one another).
C5_NoWriteBack ==
  [][(pc = "mounted" /\ Len(navQueue') > Len(navQueue)) =>
       WrittenPair(navQueue'[Len(navQueue')]) = Mirror(sel')]_vars

\* C6: when the URL has only ever carried season / episode values the
\* component wrote itself, the URL-to-state sync of a commit never replaces
\* the Selection.
C6_NoEchoAdoption ==
  [][(pc = "mounted" /\ ~seen.first /\ seen' # seen) => sel' = sel]_vars

\* C7: every step that changes the Selection of the mounted component leaves
\* the LastWatched record equal to the new Selection.
C7_LastWatchedFollows ==
  [][(pc = "mounted" /\ sel' # sel) => lastWatched' = sel']_vars

\* C8 as stated: a commit whose state-to-URL effect writes the URL appends
\* one router.replace whose season and episode are the Selection's values and
\* whose other parameter is the current URL's, unchanged; a commit that finds
\* the numbers the URL's season and episode spell equal to the Selection
\* writes nothing.
C8_NoWriteWhenEqual ==
  [][(pc = "mounted" /\ seen' # seen) =>
       IF UrlPair = sel
       THEN navQueue' = navQueue
       ELSE /\ Len(navQueue') = Len(navQueue) + 1
            /\ SubSeq(navQueue', 1, Len(navQueue)) = navQueue
            /\ WrittenPair(navQueue'[Len(navQueue')]) = Mirror(sel)
            /\ navQueue'[Len(navQueue')].ref = url.ref]_vars

\* C8 amended: the same, with "equal" read on the text of the parameters: the
\* commit writes nothing exactly when the URL's season and episode are the
\* decimal text String() gives the Selection's values.
C8_UrlWriteFrame ==
  [][(pc = "mounted" /\ seen' # seen) =>
       IF WrittenPair(url) = Mirror(sel)
       THEN navQueue' = navQueue
       ELSE /\ Len(navQueue') = Len(navQueue) + 1
            /\ SubSeq(navQueue', 1, Len(navQueue)) = navQueue
            /\ WrittenPair(navQueue'[Len(navQueue')]) = Mirror(sel)
            /\ navQueue'[Len(navQueue')].ref = url.ref]_vars

\* C8 witness: a pending write that changes season / episode and carries the
\* unrelated parameter of the URL
C8_Witness ==
  /\ pc = "mounted" /\ ~Dirty
  /\ Len(navQueue) = 1
  /\ url.ref = "home" /\ navQueue[1].ref = "home"
  /\ WrittenPair(navQueue[1]) = Mirror(sel)
  /\ WrittenPair(navQueue[1]) # WrittenPair(url)

\* C9: once the stream request has settled, with no user mode action and no
\* playback error so far, the surface is the direct video element when the
\* response holds a download, else the sandboxed iframe when an embed URL
\* exists, else the "Video not available" placeholder.
C9_SurfaceAfterFetch ==
  (VIdle /\ swrSettle.settled /\ ~streamLoading /\ ~isLoading /\ ~touched) =>
    Surface = IF hasDirectSources THEN "direct"
              ELSE IF hasEmbed THEN "embed"
              ELSE "unavailable"

PlayerSourcesBelongTo(key) ==
  /\ \A i \in 1..Len(swr.data.downloads) : swr.data.downloads[i].for = key
  /\ \A i \in 1..Len(swr.data.captions) : swr.data.captions[i].for = key

\* C11: the commit of a changed Selection resets the playback machine: the
\* player goes on under the new Selection's key with the direct-failed flag
\* false, the initial mode, no sources, no user action recorded and no embed
\* iframe state; and whatever sources a mounted player holds, and so the mode
\* computed from them, were fetched for the key it is mounted under.
C11_SelectionChangeResets ==
  [][/\ (vpc = "mounted" /\ pc = "mounted" /\ seen'.sel # seen.sel) =>
          /\ vpc' = "mounted"
          /\ vkey' = playerKey(seen'.sel)
          /\ vkey' # vkey
          /\ ~directFailed'
          /\ mode' = "direct"
          /\ swr'.data = NoData /\ ~swr'.error
          /\ ~touched'
          /\ sep' = NoSep
          /\ vseen' = NoVSeen
     /\ (vpc' = "mounted" /\ pc' = "mounted" /\ ~Dirty') =>
          /\ vkey' = playerKey(sel')
          /\ PlayerSourcesBelongTo(vkey)']_vars

\* C11 witness: a changed Selection is about to be committed over a player
\* whose direct playback failed and whose embed iframe has loaded
C11_Witness ==
  /\ pc = "mounted" /\ Dirty /\ ~seen.first /\ seen.sel # sel
  /\ VIdle /\ directFailed /\ mode = "embed-sandboxed"
  /\ sep.mounted /\ ~sep.isLoading /\ ~sep.hasError

\* An iframe lets its document do what a sandbox token names: everything
\* without a sandbox attribute, else what the attribute lists
IframePermits(f, token) == ~f.sandboxed \/ token \in f.sandbox

\* The embed iframes on the page
RenderedIframes ==
  (IF VIdle /\ sep.mounted /\ ~sep.hasError THEN {SandboxedEmbedIframe} ELSE {})
  \cup (IF EoSurface = "iframe" THEN {EmbedOnlyIframe} ELSE {})

\* C12: every embed iframe a VideoPlayer renders permits scripting and
\* same-origin access, permits neither popups nor top-level navigation, and
\* has the referrer policy no-referrer.
C12_EmbedIframeSandboxed ==
  \A f \in RenderedIframes :
    /\ IframePermits(f, "allow-scripts")
    /\ IframePermits(f, "allow-same-origin")
    /\ ~IframePermits(f, "allow-popups")
    /\ ~IframePermits(f, "allow-top-navigation")
    /\ f.referrerPolicy = "no-referrer"

\* The spinner of an embed iframe is on the page
SandboxedEmbedSpinner == VIdle /\ sep.mounted /\ ~sep.hasError /\ sep.isLoading
EmbedOnlySpinner == EoSurface = "iframe" /\ eo.iframeLoading

\* C13: the loading state of an embed iframe is always left: while its
\* spinner shows, a load event, a load error or the passing of the 15-second
\* timer is ahead, also when the iframe's document hangs.
C13_EmbedLoadingIsLeft ==
  /\ SandboxedEmbedSpinner => ENABLED (handleLoad \/ handleError)
  /\ EmbedOnlySpinner =>
       ENABLED (handleIframeLoad \/ handleIframeError \/ EoTick \/ EoTimeout)

\* The playback surface reports a failure: the direct video failed, or an
\* embed iframe failed to load or timed out
DirectFailureReported == VIdle /\ Surface # "loading" /\ directFailed
SandboxedEmbedFailureReported == VIdle /\ sep.mounted /\ sep.hasError
EmbedOnlyFailureReported == EoSurface = "error"

\* The recovery actions on the page: the ModeSelector's buttons, the buttons
\* of the fallback view, "Open in New Tab" of SandboxedEmbedPlayer's error
\* view, "Try Again" and "Open in New Tab" of the embed-only error view
PlayerRecoveryOffered ==
  \/ DirectButtonShown
  \/ EmbedButtonShown
  \/ ExternalButtonShown
  \/ Surface = "fallback"
  \/ (sep.mounted /\ sep.hasError)
EmbedOnlyRecoveryOffered == EoSurface = "error"

\* C14: whenever the playback surface reports a failure, a recovery action
\* (retry, switch to the sandboxed embed, open externally) is offered; also
\* when direct playback fails and there is no embed URL.
C14_FailureOffersRecovery ==
  /\ (DirectFailureReported \/ SandboxedEmbedFailureReported) => PlayerRecoveryOffered
  /\ EmbedOnlyFailureReported => EmbedOnlyRecoveryOffered

\* The fields a LastWatched record must hold as numbers
RequiredFields == {"season", "episode", "updatedAt"}
\* The stored value is missing, is no JSON text, or is JSON lacking a numeric
\* season, episode or updatedAt
LacksRecord(raw) ==
  \/ raw.kind # "json"
  \/ \E f \in RequiredFields : raw.json[f].type # "number"
\* A read ended without an exception, null for such a stored value, and
\* otherwise with all three fields numeric
ReadsSafely(raw, r) ==
  /\ ~r.threw
  /\ LacksRecord(raw) => r.isNull
  /\ ~r.isNull => \A f \in RequiredFields : r.value[f].type = "number"

\* C15: for a stored value that is missing, not valid JSON, or valid JSON
\* lacking a numeric season, episode or updatedAt, getLastWatched and the
\* useLastWatched hook yield null; no read throws; no read yields a record
\* lacking one of the three.
C15_BadStoredReadsNull ==
  /\ \A title \in TitleKeys :
       ReadsSafely(lwStore[title], getLastWatched(lwStore, title))
  /\ \A h \in Hooks :
       lwSubs[h].mounted => ReadsSafely(lwSubs[h].raw, useLastWatchedValue(lwSubs[h].raw))

\* C15 witness: a mounted hook holds the stored text of an object with
\* numeric season and episode and no numeric updatedAt, and reads null
C15_Witness ==
  \E h \in Hooks :
    /\ lwSubs[h].mounted
    /\ lwSubs[h].raw = lwStore[HookTitle(h)]
    /\ lwSubs[h].raw.kind = "json" /\ lwSubs[h].raw.json.type = "object"
    /\ lwSubs[h].raw.json.season.type = "number"
    /\ lwSubs[h].raw.json.episode.type = "number"
    /\ lwSubs[h].raw.json.updatedAt.type # "number"
    /\ useLastWatchedValue(lwSubs[h].raw).isNull

\* The step is a call of the last-watched API
LwCalled == lwCall' # lwCall

\* C16: a call of setLastWatched / updateLastWatched whose storage write
\* fails returns without an exception reaching its caller and leaves the
\* stored record as it was.
C16_FailedWriteIsSilent ==
  [][(LwCalled /\ lwCall'.writeFailed) =>
       /\ ~lwCall'.threw
       /\ lwStore' = lwStore]_vars

\* The record a successful local write stored, as a reader obtains it
WrittenRecord ==
  Parsed(JsonObject(Scalar("number", 1), Scalar("number", lwCall'.episode),
                    Scalar("number", now), NoField))

\* C17: a successful local write or clear notifies every mounted subscriber
\* of that title's key, after the write is applied: the snapshot a notified
\* subscriber re-reads is the stored value, and parses to the whole record
\* just written (null after a clear); subscribers of another title's key are
\* not notified.
C17_SubscribersNotified ==
  [][(/\ LwCalled
      /\ lwCall'.op \in {"updateLastWatched", "setLastWatched", "clearLastWatched"}
      /\ ~lwCall'.writeFailed) =>
       \A h \in Hooks :
         IF lwSubs[h].mounted /\ HookTitle(h) = lwCall'.title
         THEN /\ h \in lwNotified'
              /\ lwSubs'[h].raw = getSnapshot(lwStore', HookTitle(h))
              /\ useLastWatchedValue(lwSubs'[h].raw) =
                   IF lwCall'.op = "clearLastWatched" THEN Null ELSE WrittenRecord
         ELSE /\ h \notin lwNotified'
              /\ lwSubs'[h] = lwSubs[h]]_vars

\* C17 witness: a local write went through with two subscribers of its title
\* notified and a subscriber of the other title mounted
C17_Witness ==
  /\ lwCall.op \in {"updateLastWatched", "setLastWatched"} /\ ~lwCall.writeFailed
  /\ Cardinality(lwNotified) = 2
  /\ \E h \in Hooks : lwSubs[h].mounted /\ HookTitle(h) # lwCall.title
  /\ \A h \in lwNotified : lwSubs[h].raw = lwStore[lwCall.title]

\* The item is in the list
Listed(list, item) == \E i \in 1..Len(list) : list[i] = item

\* C18: getContinueWatching returns at most 20 entries, each with a
\* percentage strictly between 0 and 90, newest first; an entry with such a
\* percentage is left out only when 20 entries at least as recent are
\* returned.
C18_ContinueWatchingList ==
  LET list == getContinueWatching(progressMap) IN
    /\ Len(list) <= 20
    /\ \A i \in 1..Len(list) :
         list[i].progress.percentage > 0 /\ list[i].progress.percentage < 90
    /\ \A i \in 1..Len(list) : \A j \in i..Len(list) :
         list[i].progress.timestamp >= list[j].progress.timestamp
    /\ \A k \in 1..Len(progressMap) :
         (progressMap[k].value.percentage > 0 /\ progressMap[k].value.percentage < 90) =>
           \/ Listed(list, toItem(progressMap[k]))
           \/ /\ Len(list) = 20
              /\ \A i \in 1..Len(list) :
                   list[i].progress.timestamp >= progressMap[k].value.timestamp

\* C18 witness: after an update, more than 20 stored records are in
\* progress with distinct timestamps stored oldest first, so the list is cut
\* and reordered
C18_Witness ==
  /\ wpc = "loaded" /\ wpLast.op = "updateProgress"
  /\ Len(QualifyingEntries(progressMap)) > 20
  /\ progressMap[1].value.timestamp < progressMap[2].value.timestamp
  /\ Len(getContinueWatching(progressMap)) = 20

\* The last call was an updateProgress that returned, recording a percentage
\* of 90 or more
RecordedWatched ==
  /\ wpLast.op = "updateProgress"
  /\ ~wpLast.threw
  /\ wpLast.percentage # Undefined
  /\ wpLast.percentage[1] >= 90

C20_KeyRoundTrip ==
  (wpLast.op = "updateProgress" /\ wpLast.season # Undefined) =>
    LET key == buildKey(wpLast.detailPath, wpLast.season, wpLast.episode)
        item == toItem(progressMap[IndexOf(progressMap, key)])
    IN /\ \A detailPath \in DetailPaths, ep \in Episodes :
            <<detailPath, ep[1], ep[2]>> # <<wpLast.detailPath, wpLast.season, wpLast.episode>>
              => buildKey(detailPath, ep[1], ep[2]) # key
       /\ item.detailPath = wpLast.detailPath
       /\ item.season = wpLast.season
       /\ item.episode = wpLast.episode

\* The query parameters of a URL string, as a reader of the URL parses them
ParamsOf(text) == ParseQuery(NewURL(text).url.search)

\* C21: a URL buildPlayerUrl returns for a base that parses carries season
\* and episode parameters that read back as the numbers it was called
\* with, and calling it again with the same inputs gives the same string.
C21_PlayerUrlRoundTrip ==
  (built.called /\ ~NewURL(built.base).threw) =>
    /\ ~built.out.threw
    /\ NumberParam(ParamsOf(built.out.text), <<"season">>) = built.season[1]
    /\ NumberParam(ParamsOf(built.out.text), <<"episode">>) = built.episode[1]
    /\ BuildPlayerUrlText(built.base, built.id, urlDetailPath, built.season, built.episode)
         = built.out

\* C21 witness: a URL was built for a two-digit season on a base that already
\* carried season parameters, with an id containing "&season=9"
C21_Witness ==
  /\ built.called /\ ~built.out.threw
  /\ SearchParamsGet(ParseQuery(built.base.search), <<"season">>).found
  /\ built.season = Some(MaxNumber - 1)
  /\ built.id = <<"7", "&", "season", "=", "9">>
  /\ ul.pc = "settled"

\* The player URL strings the page was given
PageTexts == {up.episodes[i] : i \in 1..Len(up.episodes)} \cup {up.title}

\* C22: for every player URL string of the catalog or the title,
\* getPlayerBaseUrlFromAnyPlayerUrl returns a string that does not parse
\* unchanged, computing the embed URL ends in a value and not in an
\* exception, and the stream loading flag is cleared when the load is over.
C22_EmbedUrlNeverThrows ==
  /\ \A text \in PageTexts : NewURL(text).threw => PlayerBaseOfText(text) = text
  /\ ul.pc # "rejected"
  /\ ul.pc \in {"settled", "rejected"} => ~ul.isLoadingStream

\* The URL built on the configured player endpoint
FallbackEndpointUrl(seasonNum, episodeNum) ==
  BuildPlayerUrlText(PLAYER_BASE_URL, contentId, urlDetailPath, Some(seasonNum), Some(episodeNum))

\* The embed URL in the priority order: the episode's own URL, a URL built
\* on a sibling's base, one built on the title's base, one built on the
\* configured endpoint
EmbedUrlByPriority(page, seasonNum, episodeNum) ==
  LET own == page.episodes[episodeNum]
      siblings == SelectSeq(page.episodes, LAMBDA playerUrl : playerUrl # NoPlayerUrl)
      on(playerUrl) == BuildPlayerUrlText(PlayerBaseOfText(playerUrl), contentId, urlDetailPath,
                                          Some(seasonNum), Some(episodeNum))
  IN IF own # NoPlayerUrl THEN Returned(own)
     ELSE IF Len(siblings) > 0 THEN on(siblings[1])
     ELSE IF page.title # NoPlayerUrl THEN on(page.title)
     ELSE FallbackEndpointUrl(seasonNum, episodeNum)

\* C23: once the stream request of a Selection has settled, the embed URL
\* of the page is the one the priority order gives (own URL, sibling's base,
\* title's base, configured endpoint), and it is a URL.
C23_EmbedUrlPriority ==
  ul.pc = "settled" =>
    /\ Returned(ul.playerUrl) = EmbedUrlByPriority(up, UrlSeason, up.episode)
    /\ ul.playerUrl # NoPlayerUrl

\* The stored value holds no progress object
NoObjectStored == progressStored.kind # "json"

\* C24: when the value under the progress key is missing, is no JSON, or is
\* JSON that is no object (null, a number, an array), the hook holds no
\* progress after loading: getProgress, isWatched and getContinueWatching
\* do not throw and report nothing, and updateProgress does not throw.
C24_BadProgressReadsEmpty ==
  /\ (wpc = "loaded" /\ wpLast.n = 0 /\ NoObjectStored) =>
       /\ ~ReadThrows(progressType)
       /\ getContinueWatching(progressMap) = << >>
       /\ \A detailPath \in DetailPaths, ep \in Episodes :
            /\ getProgress(progressMap, detailPath, ep[1], ep[2]) = Undefined
            /\ ~isWatched(progressMap, detailPath, ep[1], ep[2])
  /\ ~wpLast.threw

\* C25: a change of the stored LastWatched record delivered to the mounted
\* page leaves the Selection, the URL, the pending navigations and the
\* stream state as they are.
C25_LastWatchedSeedsOnce ==
  [][LastWatchedStorageEvent =>
       /\ sel' = sel
       /\ url' = url /\ navQueue' = navQueue
       /\ streamState' = streamState /\ isLoadingStream' = isLoadingStream
       /\ inflight' = inflight
       /\ ~Dirty']_vars

\* C25 witness: the page is at rest on a streamed episode, its URL mirroring
\* the Selection, while the store holds a record only another tab can have
\* written (a season this title's page cannot select)
C25_Witness ==
  /\ pc = "mounted" /\ ~Dirty /\ inflight = << >> /\ navQueue = << >>
  /\ lastWatched = Pair(0, 1)
  /\ url.season = JsString(sel.season) /\ url.episode = JsString(sel.episode)
  /\ lastSettle.settled

\* C26: a Selection change sets season and episode together, to the pair a
\* handler selected (and wrote to the store) or to the pair of the URL; the
\* load effect and the URL effect are given the Selection of the render they
\* belong to, and the stored record is the pair selected.
C26_SelectionAtomic ==
  [][pc = "mounted" =>
       /\ sel' # sel =>
            \/ sel' = lastWatched' /\ UNCHANGED <<url, inflight, navQueue>>
            \/ sel' = Pair(qpSeason, qpEpisode) /\ UNCHANGED <<url, lastWatched>>
       /\ Len(inflight') > Len(inflight) => inflight'[Len(inflight')] = sel
       /\ Len(navQueue') > Len(navQueue) =>
            /\ navQueue'[Len(navQueue')].season = JsString(sel.season)
            /\ navQueue'[Len(navQueue')].episode = JsString(sel.episode)
       /\ lastWatched' # lastWatched => lastWatched' = sel']_vars

\* C26 witness: a Selection change that replaced both the season and the
\* episode waits for its render
C26_Witness ==
  /\ pc = "mounted" /\ ~seen.first
  /\ sel.season # seen.sel.season /\ sel.episode # seen.sel.episode

\* A stream request for the current Selection is outstanding
FetchOutstanding == \E i \in 1..Len(inflight) : inflight[i] = sel

\* C27: between commits, isLoadingStream is true while a stream request for
\* the current Selection is outstanding, and false when none is outstanding.
C27_LoadingWhileOutstanding ==
  (pc = "mounted" /\ ~Dirty) =>
    /\ FetchOutstanding => isLoadingStream
    /\ inflight = << >> => ~isLoadingStream

\* C28: in the embed-only player the timer is not pending once the iframe
\* has loaded, once an error is shown, or when the player is not mounted, so
\* it fires neither after a load nor after unmount; and it is pending only
\* while the iframe is rendered and loading.
C28_TimerOnlyWhileIframeLoads ==
  /\ eo.iframe = "loaded" => ~eo.timer.armed
  /\ eo.hasError => ~eo.timer.armed
  /\ ~eo.mounted => ~eo.timer.armed
  /\ eo.timer.armed => (EoSurface = "iframe" /\ eo.iframeLoading)

\* The stored records as they are after the last call
StoredNow == getAllProgress(progressStored)

\* C29: a call of updateProgress or clearProgress for one key, through
\* either instance and also when it is the second call before a render,
\* leaves the stored record of every other key as it was before the call.
C29_OtherRecordsKept ==
  wpsLast.n > 0 =>
    \A k \in 1..Len(wpsLast.before) :
      wpsLast.before[k].key # wpsLast.key =>
        /\ IndexOf(StoredNow, wpsLast.before[k].key) # 0
        /\ StoredNow[IndexOf(StoredNow, wpsLast.before[k].key)] = wpsLast.before[k]

\* C30: the source playing at first is a download of the greatest
\* resolution (quality when it has no resolution); and once the user picked
\* a source, the playing source is the one picked for as long as the list
\* of sources stays the same.
C30_PickedSourceStays ==
  /\ (dp.mounted /\ dp.initial) =>
       \A i \in 1..Len(dp.sources) : Rank(dp.currentSource) >= Rank(dp.sources[i])
  /\ (dp.mounted /\ ~DirectDirty /\ dp.picked # NoSource) => dp.currentSource = dp.picked

====
